---- MODULE Spec2Model ----
(***************************************************************************)
(* Latency-arbitrage validator: venue readers, book channels, aggregator,  *)
(* book store, signal engine, paper executor and EV calculator.            *)
(*                                                                         *)
(* Units.  The code keeps every time in nanoseconds and multiplies each    *)
(* *_ms setting by 1_000_000 before comparing.  Here every time is an      *)
(* integer number of milliseconds, i.e. that common factor is divided out  *)
(* of both sides of every comparison; one second is 1000.  Prices are      *)
(* small positive integers, 0 stands for a side that the frame did not     *)
(* carry.  float64 quantities that are quotients (spreads, PnL, EV) are    *)
(* kept as exact fractions [n, d] with d > 0, compared by cross            *)
(* multiplication; float rounding is not modelled.                         *)
(***************************************************************************)
EXTENDS Integers, Sequences, FiniteSets, TLC

\* ------------------------------------------------------------------ bounds
MaxPx == 4
MaxQty == 1
MaxTick == 3
MaxAlloc == 2
BookChCap == 2
EVWindow == 2
MaxBacklog == 1
OpCap == 2
BufLines == 2
MaxRec == 4
MaxFaults == 1
MaxCalls == 3
MaxEvents == 4
MaxSnap == 1
MaxAttempts == 66
MaxBeats == 2

\* ------------------------------------------------------- program constants
ExchangeOKX == "okx"
ExchangeBinance == "binance"
ExchangeBittap == "bittap"
SideLong == "long"
SideShort == "short"
ExitTP == "tp"
ExitSL == "sl"
ExitTimeout == "timeout"
OneSecond == 1000
VolMaxSamples == 60
BpsScale == 10000
DepthLevels == 5

Leaders == {ExchangeOKX, ExchangeBinance}
Venues == {ExchangeOKX, ExchangeBinance, ExchangeBittap}
Sides == {SideLong, SideShort}
Symbols == {"BTCUSDT"}

\* ------------------------------------------------------------ configuration
TickMs == OneSecond
ThetaEntryBps == 10
MinDepthUSD == 3
TPRatio == [n |-> 1, d |-> 2]
SLRatio == [n |-> 1, d |-> 2]
MaxHoldMs == 1000
CooldownMs == 2000
SlippageBps == 0
TakerRateBps == 4
RebatePct == 25
Times == {TickMs * k : k \in 1..MaxTick}
Qtys == 0..MaxQty

NoBook == [nil |-> TRUE]
NoSignal == [nil |-> TRUE]
NoPos == [nil |-> TRUE]

\* ------------------------------------------------------------------ helpers
Abs(x) == IF x < 0 THEN -x ELSE x

RECURSIVE Gcd(_, _)
\* Euclid's algorithm; each remainder is computed once
Gcd(a, b) == IF b = 0 THEN a ELSE CHOOSE g \in {Gcd(b, r) : r \in {a % b}} : TRUE

\* the fraction n / d in lowest terms with a positive denominator; p is
\* the pair <<n, d>>, computed once
Rat(n, d) ==
  CHOOSE r \in {LET g == Gcd(Abs(p[1]), Abs(p[2]))
                    s == IF p[2] < 0 THEN -1 ELSE 1
                IN [n |-> s * (p[1] \div g), d |-> s * (p[2] \div g)]
                : p \in {<<n, d>>}} : TRUE

RatAdd(a, b) == Rat(a.n * b.d + b.n * a.d, a.d * b.d)
RatSub(a, b) == Rat(a.n * b.d - b.n * a.d, a.d * b.d)
RatMul(a, b) == Rat(a.n * b.n, a.d * b.d)
RatAbs(a) == [n |-> Abs(a.n), d |-> a.d]
RatLt(a, b) == a.n * b.d < b.n * a.d
RatLe(a, b) == a.n * b.d <= b.n * a.d
RatInt(k) == [n |-> k, d |-> 1]
RatZero == RatInt(0)

\* ---------------------------------------------------------------- BookEvent
\* A decoded frame: best bid / ask taken from the first row of each side,
\* Levels = the bid rows followed by the ask rows.  Frames carry at most one
\* row per side, both rows with the same quantity Qty.
BookEvent(ex, sym, bid, ask, qty, at) ==
  [Exchange |-> ex, SymbolCanon |-> sym, BestBidPx |-> bid, BestAskPx |-> ask,
   Qty |-> qty, ArrivedAtUnixNs |-> at]

Levels(b) ==
  (IF b.BestBidPx > 0 THEN <<[Price |-> b.BestBidPx, Qty |-> b.Qty]>> ELSE <<>>) \o
  (IF b.BestAskPx > 0 THEN <<[Price |-> b.BestAskPx, Qty |-> b.Qty]>> ELSE <<>>)

IsValid(b) == b.BestBidPx > 0 /\ b.BestAskPx > 0 /\ b.BestBidPx < b.BestAskPx

\* twice the mid price (the halving cancels in every ratio of two mids)
MidPrice2(b) == b.BestBidPx + b.BestAskPx

RECURSIVE SumLevels(_, _)
SumLevels(lv, i) ==
  IF i > Len(lv) \/ i > DepthLevels THEN 0
  ELSE lv[i].Price * lv[i].Qty + SumLevels(lv, i + 1)

Top5DepthUSD_BidOnly(b) == IF b.BestBidPx > 0 THEN b.BestBidPx ELSE 0

Top5DepthUSD(b) == SumLevels(Levels(b), 1)

\* ------------------------------------------------------------- SignalEngine
ZeroCand == [active |-> FALSE, startNs |-> 0, signaled |-> FALSE]
ZeroVol == [lastSampleNs |-> 0, samples |-> <<>>]
ZeroSymbolState ==
  [longCand |-> ZeroCand, shortCand |-> ZeroCand, vol |-> ZeroVol, cooldownUntilNs |-> 0]

NewEngine == [s \in Symbols |-> ZeroSymbolState]

\* cfg: [PersistMs, CooldownMs, MinDepthUSD, VolFilterEnabled]
persistNs_Zero(c) == 0

persistNs(c) == c.PersistMs

NotifyStopLoss(c, eng, sym, nowNs) ==
  [eng EXCEPT ![sym].cooldownUntilNs = nowNs + c.CooldownMs]

calcLongSpreadBps(lb, fb) ==
  IF lb.BestBidPx <= 0 \/ fb.BestAskPx <= 0 THEN [ok |-> FALSE, bps |-> RatZero]
  ELSE [ok |-> TRUE, bps |-> Rat((lb.BestBidPx - fb.BestAskPx) * BpsScale, fb.BestAskPx)]

calcShortSpreadBps(lb, fb) ==
  IF fb.BestBidPx <= 0 \/ lb.BestAskPx <= 0 THEN [ok |-> FALSE, bps |-> RatZero]
  ELSE [ok |-> TRUE, bps |-> Rat((fb.BestBidPx - lb.BestAskPx) * BpsScale, lb.BestAskPx)]

updateVol(v, nowNs, mid2) ==
  IF mid2 <= 0 THEN v
  ELSE IF v.lastSampleNs > 0 /\ nowNs - v.lastSampleNs < OneSecond THEN v
  ELSE LET app == Append(v.samples, mid2)
           n == Len(app)
       IN [lastSampleNs |-> nowNs,
           samples |-> IF n > VolMaxSamples
                       THEN SubSeq(app, n - VolMaxSamples + 1, n) ELSE app]

realizedVolPositive_FourSamples(v) ==
  LET s == v.samples
      n == Len(s)
  IN /\ n >= 4
     /\ \E i \in 1..(n - 2) : s[i + 1] * s[i + 1] # s[i] * s[i + 2]

\* realizedVol(st) > 0: the sample standard deviation (ddof = 1) of the log
\* returns is positive iff there are at least two returns and they are not
\* all equal; log(p1/p0) = log(p2/p1) iff p1*p1 = p0*p2.
realizedVolPositive(v) ==
  LET s == v.samples
      n == Len(s)
  IN /\ n >= 3
     /\ \E i \in 1..(n - 2) : s[i + 1] * s[i + 1] # s[i] * s[i + 2]

MkSignal(leader, lb, fb, side, bps, nowNs) ==
  [Leader |-> leader, SymbolCanon |-> lb.SymbolCanon, Side |-> side, SpreadBps |-> bps,
   LeaderBook |-> lb, FollowerBook |-> fb, DetectedAtNs |-> nowNs, RejectedByEV |-> FALSE]

tryFire_Refire(c, leader, nowNs, lb, fb, side, bps, cand) ==
  IF ~cand.active
  THEN [cand |-> [active |-> TRUE, startNs |-> nowNs, signaled |-> FALSE], sig |-> NoSignal]
  ELSE IF nowNs - cand.startNs < persistNs(c) THEN [cand |-> cand, sig |-> NoSignal]
  ELSE [cand |-> [cand EXCEPT !.signaled = TRUE],
        sig |-> MkSignal(leader, lb, fb, side, bps, nowNs)]

tryFire(c, leader, nowNs, lb, fb, side, bps, cand) ==
  IF ~cand.active THEN
    IF persistNs(c) = 0
    THEN [cand |-> [active |-> TRUE, startNs |-> nowNs, signaled |-> TRUE],
          sig |-> MkSignal(leader, lb, fb, side, bps, nowNs)]
    ELSE [cand |-> [active |-> TRUE, startNs |-> nowNs, signaled |-> FALSE],
          sig |-> NoSignal]
  ELSE IF cand.signaled THEN [cand |-> cand, sig |-> NoSignal]
  ELSE IF nowNs - cand.startNs < persistNs(c) THEN [cand |-> cand, sig |-> NoSignal]
  ELSE [cand |-> [cand EXCEPT !.signaled = TRUE],
        sig |-> MkSignal(leader, lb, fb, side, bps, nowNs)]

LongActive(lb, fb) ==
  LET r == calcLongSpreadBps(lb, fb) IN r.ok /\ RatLt(RatInt(ThetaEntryBps), r.bps)

ShortActive_AsLong(lb, fb) == LongActive(lb, fb)

ShortActive(lb, fb) ==
  LET r == calcShortSpreadBps(lb, fb) IN r.ok /\ RatLt(RatInt(ThetaEntryBps), r.bps)

EnginePrecond(leader, lb, fb) ==
  /\ lb # NoBook /\ fb # NoBook
  /\ lb.Exchange = leader
  /\ fb.Exchange = ExchangeBittap
  /\ lb.SymbolCanon = fb.SymbolCanon
  /\ IsValid(lb) /\ IsValid(fb)

InCooldown_Never(st, nowNs) == FALSE

InCooldown_OpenStart(st, nowNs) ==
  st.cooldownUntilNs > 0 /\ nowNs < st.cooldownUntilNs /\ nowNs > st.cooldownUntilNs - CooldownMs

InCooldown(st, nowNs) == st.cooldownUntilNs > 0 /\ nowNs < st.cooldownUntilNs

\* Engine.Evaluate: returns the engine's new per-symbol states, the signal
\* (or NoSignal) and the filter at which the call returned.
EngineEvaluate(c, leader, eng, nowNs, lb, fb) ==
  IF ~EnginePrecond(leader, lb, fb)
  THEN [eng |-> eng, sig |-> NoSignal, stage |-> "precond"]
  ELSE
    LET sym == lb.SymbolCanon
        st == eng[sym]
    IN
    IF InCooldown(st, nowNs)
    THEN [eng |-> eng, sig |-> NoSignal, stage |-> "cooldown"]
    ELSE IF c.MinDepthUSD > 0 /\ Top5DepthUSD(lb) < c.MinDepthUSD
    THEN [eng |-> [eng EXCEPT ![sym].longCand = ZeroCand, ![sym].shortCand = ZeroCand],
          sig |-> NoSignal, stage |-> "depth"]
    ELSE
      LET vol1 == IF c.VolFilterEnabled THEN updateVol(st.vol, nowNs, MidPrice2(lb))
                  ELSE st.vol
          st1 == [st EXCEPT !.vol = vol1]
      IN
      IF c.VolFilterEnabled /\ realizedVolPositive(vol1)
      THEN [eng |-> [eng EXCEPT ![sym] = st1], sig |-> NoSignal, stage |-> "vol"]
      ELSE
        LET lr == calcLongSpreadBps(lb, fb)
            lf == IF LongActive(lb, fb)
                  THEN tryFire(c, leader, nowNs, lb, fb, SideLong, lr.bps, st1.longCand)
                  ELSE [cand |-> ZeroCand, sig |-> NoSignal]
            st2 == [st1 EXCEPT !.longCand = lf.cand]
        IN
        IF lf.sig # NoSignal
        THEN [eng |-> [eng EXCEPT ![sym] = st2], sig |-> lf.sig, stage |-> "spread"]
        ELSE
          LET sr == calcShortSpreadBps(lb, fb)
              sf == IF ShortActive(lb, fb)
                    THEN tryFire(c, leader, nowNs, lb, fb, SideShort, sr.bps, st2.shortCand)
                    ELSE [cand |-> ZeroCand, sig |-> NoSignal]
              st3 == [st2 EXCEPT !.shortCand = sf.cand]
          IN [eng |-> [eng EXCEPT ![sym] = st3], sig |-> sf.sig, stage |-> "spread"]

\* ------------------------------------------------------------ PaperExecutor
NewExecutor == [positions |-> [s \in Symbols |-> NoPos], allocated |-> 0]

\* FeeDetail.EffectiveTakerFee() * 2 * 10000, taker and rebate given in bps / percent
FeeBps == Rat(2 * TakerRateBps * (100 - RebatePct), 100)

entryPx(side, fb) ==
  IF side = SideLong THEN
    IF fb.BestAskPx <= 0 THEN [err |-> TRUE, px |-> RatZero]
    ELSE [err |-> FALSE, px |-> Rat(fb.BestAskPx * (BpsScale + SlippageBps), BpsScale)]
  ELSE IF side = SideShort THEN
    IF fb.BestBidPx <= 0 THEN [err |-> TRUE, px |-> RatZero]
    ELSE [err |-> FALSE, px |-> Rat(fb.BestBidPx * (BpsScale - SlippageBps), BpsScale)]
  ELSE [err |-> TRUE, px |-> RatZero]

exitPx(side, fb) ==
  IF side = SideLong THEN
    IF fb.BestBidPx <= 0 THEN [err |-> TRUE, px |-> RatZero]
    ELSE [err |-> FALSE, px |-> Rat(fb.BestBidPx * (BpsScale - SlippageBps), BpsScale)]
  ELSE IF side = SideShort THEN
    IF fb.BestAskPx <= 0 THEN [err |-> TRUE, px |-> RatZero]
    ELSE [err |-> FALSE, px |-> Rat(fb.BestAskPx * (BpsScale + SlippageBps), BpsScale)]
  ELSE [err |-> TRUE, px |-> RatZero]

currentSpreadBps(side, lb, fb) ==
  IF side = SideLong THEN calcLongSpreadBps(lb, fb)
  ELSE IF side = SideShort THEN calcShortSpreadBps(lb, fb)
  ELSE [ok |-> FALSE, bps |-> RatZero]

Direction(side) == IF side = SideLong THEN 1 ELSE -1

\* a position record that exists and is not closed
PosOpen(p) == p # NoPos /\ ~p.Closed

HasOpen(ex, sym) == PosOpen(ex.positions[sym])

AlreadyOpen_NoClosedTest(ex, sym) == ex.positions[sym] # NoPos /\ ex.positions[sym].Closed

\* TryOpen's test "pos != nil && !pos.Closed"
AlreadyOpen(ex, sym) == ex.positions[sym] # NoPos /\ ~ex.positions[sym].Closed

Evaluable_NoClosedTest(ex, sym) == ex.positions[sym] # NoPos

\* Evaluate's test "pos == nil || pos.Closed", negated
Evaluable(ex, sym) == ex.positions[sym] # NoPos /\ ~ex.positions[sym].Closed

\* Executor.TryOpen: (position, opened, error) and the executor afterwards.
TryOpen(leader, ex, sig) ==
  LET refuse == [ex |-> ex, pos |-> NoPos, opened |-> FALSE, err |-> FALSE]
      fail == [ex |-> ex, pos |-> NoPos, opened |-> FALSE, err |-> TRUE]
  IN
  IF sig = NoSignal \/ sig.Leader # leader THEN refuse
  ELSE IF sig.FollowerBook = NoBook \/ sig.LeaderBook = NoBook THEN fail
  ELSE IF sig.FollowerBook.Exchange # ExchangeBittap THEN fail
  ELSE IF AlreadyOpen(ex, sig.SymbolCanon) THEN refuse
  ELSE
    LET e == entryPx(sig.Side, sig.FollowerBook) IN
    IF e.err THEN fail
    ELSE
      LET pos == [uid |-> ex.allocated + 1,
                  Leader |-> leader, SymbolCanon |-> sig.SymbolCanon, Side |-> sig.Side,
                  EntryPx |-> e.px, EntrySpread |-> sig.SpreadBps,
                  EntryTimeNs |-> sig.DetectedAtNs, FeeBps |-> FeeBps,
                  ExitPx |-> RatZero, ExitTimeNs |-> 0, ExitReason |-> "",
                  GrossPnLBps |-> RatZero, NetPnLBps |-> RatZero, Closed |-> FALSE]
      IN [ex |-> [positions |-> [ex.positions EXCEPT ![sig.SymbolCanon] = pos],
                  allocated |-> ex.allocated + 1],
          pos |-> pos, opened |-> TRUE, err |-> FALSE]

ClosePos_StampThenPrice(nowNs, pos, fb, reason) ==
  LET x == exitPx(pos.Side, fb) IN
  IF x.err THEN [pos EXCEPT !.ExitTimeNs = nowNs, !.ExitReason = reason]
  ELSE
    LET gross == RatMul(RatMul(RatSub(x.px, pos.EntryPx),
                               [n |-> pos.EntryPx.d, d |-> pos.EntryPx.n]),
                        RatInt(BpsScale * Direction(pos.Side)))
    IN [pos EXCEPT !.ExitPx = x.px, !.ExitTimeNs = nowNs, !.ExitReason = reason,
                   !.Closed = TRUE, !.GrossPnLBps = gross,
                   !.NetPnLBps = RatSub(gross, pos.FeeBps)]

\* Executor.close: the closed position, or NoPos when no exit price exists.
ClosePos(nowNs, pos, fb, reason) ==
  LET x == exitPx(pos.Side, fb) IN
  IF x.err THEN NoPos
  ELSE
    LET gross == RatMul(RatMul(RatSub(x.px, pos.EntryPx),
                               [n |-> pos.EntryPx.d, d |-> pos.EntryPx.n]),
                        RatInt(BpsScale * Direction(pos.Side)))
    IN [pos EXCEPT !.ExitPx = x.px, !.ExitTimeNs = nowNs, !.ExitReason = reason,
                   !.Closed = TRUE, !.GrossPnLBps = gross,
                   !.NetPnLBps = RatSub(gross, pos.FeeBps)]

ExecPrecond(leader, lb, fb) ==
  /\ lb # NoBook /\ fb # NoBook
  /\ lb.Exchange = leader
  /\ fb.Exchange = ExchangeBittap
  /\ lb.SymbolCanon = fb.SymbolCanon

TPHit(entryAbs, curAbs) ==
  /\ TPRatio.n > 0
  /\ entryAbs.n > 0
  /\ RatLe(curAbs, RatMul(RatSub(RatInt(1), TPRatio), entryAbs))

SLHit(entryAbs, curAbs) ==
  /\ SLRatio.n > 0
  /\ entryAbs.n > 0
  /\ RatLe(RatMul(RatAdd(RatInt(1), SLRatio), entryAbs), curAbs)

TimeoutHit_NotStrict(nowNs, pos) == MaxHoldMs > 0 /\ nowNs - pos.EntryTimeNs >= MaxHoldMs

TimeoutHit_Disabled(nowNs, pos) == FALSE

TimeoutHit(nowNs, pos) == MaxHoldMs > 0 /\ nowNs - pos.EntryTimeNs > MaxHoldMs

ExitDecision_TimeoutFirst(nowNs, pos, cur) ==
  LET entryAbs == RatAbs(pos.EntrySpread)
      curAbs == RatAbs(cur)
  IN IF TimeoutHit(nowNs, pos) THEN ExitTimeout
     ELSE IF TPHit(entryAbs, curAbs) THEN ExitTP
     ELSE IF SLHit(entryAbs, curAbs) THEN ExitSL
     ELSE ""

\* The exit reason Evaluate selects for an open position, "" when none.
ExitDecision(nowNs, pos, cur) ==
  LET entryAbs == RatAbs(pos.EntrySpread)
      curAbs == RatAbs(cur)
  IN IF TPHit(entryAbs, curAbs) THEN ExitTP
     ELSE IF SLHit(entryAbs, curAbs) THEN ExitSL
     ELSE IF TimeoutHit(nowNs, pos) THEN ExitTimeout
     ELSE ""

\* Executor.Evaluate: the closed position (or NoPos) and the executor afterwards.
ExecEvaluate(leader, ex, nowNs, lb, fb) ==
  LET none == [ex |-> ex, closed |-> NoPos] IN
  IF ~ExecPrecond(leader, lb, fb) THEN none
  ELSE
    LET sym == lb.SymbolCanon IN
    IF ~Evaluable(ex, sym) THEN none
    ELSE
      LET pos == ex.positions[sym]
          cur == currentSpreadBps(pos.Side, lb, fb)
      IN
      IF ~cur.ok THEN none
      ELSE
        LET reason == ExitDecision(nowNs, pos, cur.bps) IN
        IF reason = "" THEN none
        ELSE
          LET cl == ClosePos(nowNs, pos, fb, reason) IN
          IF cl = NoPos THEN none
          ELSE [ex |-> [ex EXCEPT !.positions[sym] = cl], closed |-> cl]

\* ------------------------------------------------------------- EVCalculator
ZeroSample == [win |-> FALSE, grossPnLBps |-> RatZero, feeBps |-> RatZero]

NewCalculator ==
  [buf |-> [i \in 0..(EVWindow - 1) |-> ZeroSample], pos |-> 0, full |-> FALSE,
   count |-> 0, winCount |-> 0, lossCount |-> 0,
   sumWinR |-> RatZero, sumLossL |-> RatZero, sumFee |-> RatZero]

EVAdd_NoEvict(c, p) ==
  IF p = NoPos \/ ~p.Closed THEN c
  ELSE [c EXCEPT !.count = @ + 1,
                 !.buf[c.pos] = [win |-> RatLt(RatZero, p.NetPnLBps),
                                 grossPnLBps |-> p.GrossPnLBps, feeBps |-> p.FeeBps],
                 !.pos = IF c.pos + 1 >= EVWindow THEN 0 ELSE c.pos + 1,
                 !.full = IF c.pos + 1 >= EVWindow THEN TRUE ELSE @,
                 !.winCount = IF RatLt(RatZero, p.NetPnLBps) THEN @ + 1 ELSE @,
                 !.lossCount = IF RatLt(RatZero, p.NetPnLBps) THEN @ ELSE @ + 1,
                 !.sumWinR = IF RatLt(RatZero, p.NetPnLBps) THEN RatAdd(@, p.GrossPnLBps) ELSE @,
                 !.sumLossL = IF RatLt(RatZero, p.NetPnLBps) THEN @
                              ELSE RatAdd(@, RatAbs(p.GrossPnLBps)),
                 !.sumFee = RatAdd(@, p.FeeBps)]

\* Calculator.Add
EVAdd(c, p) ==
  IF p = NoPos \/ ~p.Closed THEN c
  ELSE
    LET s == [win |-> RatLt(RatZero, p.NetPnLBps), grossPnLBps |-> p.GrossPnLBps,
              feeBps |-> p.FeeBps]
        old == c.buf[c.pos]
        c1 == IF c.full
              THEN [c EXCEPT !.count = @ - 1,
                             !.winCount = IF old.win THEN @ - 1 ELSE @,
                             !.sumWinR = IF old.win THEN RatSub(@, old.grossPnLBps) ELSE @,
                             !.lossCount = IF old.win THEN @ ELSE @ - 1,
                             !.sumLossL = IF old.win THEN @
                                          ELSE RatSub(@, RatAbs(old.grossPnLBps)),
                             !.sumFee = RatSub(@, old.feeBps)]
              ELSE c
        np == c1.pos + 1
        c2 == [c1 EXCEPT !.buf[c1.pos] = s,
                         !.pos = IF np >= EVWindow THEN 0 ELSE np,
                         !.full = IF np >= EVWindow THEN TRUE ELSE @]
    IN [c2 EXCEPT !.count = @ + 1,
                  !.winCount = IF s.win THEN @ + 1 ELSE @,
                  !.sumWinR = IF s.win THEN RatAdd(@, s.grossPnLBps) ELSE @,
                  !.lossCount = IF s.win THEN @ ELSE @ + 1,
                  !.sumLossL = IF s.win THEN @ ELSE RatAdd(@, RatAbs(s.grossPnLBps)),
                  !.sumFee = RatAdd(@, s.feeBps)]

\* Calculator.Stats: Count and EV (the fields the rejection rule reads)
EVStats(c) ==
  IF c.count <= 0 THEN [Count |-> c.count, EV |-> RatZero]
  ELSE
    LET p == Rat(c.winCount, c.count)
        f == RatMul(c.sumFee, Rat(1, c.count))
        R == IF c.winCount > 0 THEN RatMul(c.sumWinR, Rat(1, c.winCount)) ELSE RatZero
        L == IF c.lossCount > 0 THEN RatMul(c.sumLossL, Rat(1, c.lossCount)) ELSE RatZero
    IN [Count |-> c.count,
        EV |-> RatAdd(RatMul(p, RatSub(R, f)),
                      RatMul(RatSub(RatInt(1), p), RatSub(RatSub(RatZero, L), f)))]

ApplyRejection_Never(sig, stats) == sig

ApplyRejection_FullWindowOnly(sig, stats) ==
  IF sig = NoSignal THEN sig
  ELSE IF stats.Count >= EVWindow /\ RatLt(stats.EV, RatZero)
       THEN [sig EXCEPT !.RejectedByEV = TRUE]
       ELSE sig

\* ev.ApplyRejection
ApplyRejection(sig, stats) ==
  IF sig = NoSignal THEN sig
  ELSE IF stats.Count > 0 /\ RatLt(stats.EV, RatZero)
       THEN [sig EXCEPT !.RejectedByEV = TRUE]
       ELSE sig

\* ==================================================================== state
VARIABLES
  cfg,      \* strategy settings the engines were built with
  clock,    \* the readers' monotonic clock (timeutil.NowNano)
  bookCh,   \* per venue: the buffered book channel, oldest event first
  books,    \* the BookStore: venue -> symbol -> latest BookEvent
  engines,  \* per leader: the signal engine's per-symbol state
  execs,    \* per leader: the paper executor
  evCalcs,  \* per leader: the EV calculator
  wire,     \* the frames the venues' sockets deliver
  last,     \* the most recent operation with its inputs and results
  hist,     \* bookkeeping about earlier operations, read only by properties
  writers,  \* per output file: the JSONL writer and its file
  disk,     \* whether the file system accepts writes at the moment
  proc,     \* where main, the aggregator and the closing goroutine stand
  backoff,  \* a client's reconnect backoff
  okxConn,  \* the OKX client's connection and heartbeat fields
  tracker   \* the lag tracker: per leader link, two rolling windows

ioVars == <<writers, disk, proc>>

netVars == <<backoff, okxConn, tracker>>

vars == <<cfg, clock, bookCh, books, engines, execs, evCalcs, wire, last, hist,
          writers, disk, proc, backoff, okxConn, tracker>>

\* the parts of the program a specification leaves out stand still
Absent == [absent |-> TRUE]

IOIdle == writers = Absent /\ disk = TRUE /\ proc = Absent

NetIdle == backoff = Absent /\ okxConn = Absent /\ tracker = Absent

\* price pairs <<bid, ask>> a frame can decode to: adjacent prices, which
\* gives one-tick-wide books (1,2), books with a missing side (0,1), (1,0)
\* and crossed books (2,1)
PxPairs == {p \in (0..MaxPx) \X (0..MaxPx) : Abs(p[2] - p[1]) = 1}

TightPairs == {p \in PxPairs : p[1] > 0 /\ p[2] > p[1]}

Cfg(persistMs, depth, vol) ==
  [PersistMs |-> persistMs, CooldownMs |-> CooldownMs, MinDepthUSD |-> depth,
   VolFilterEnabled |-> vol]

DefaultCfg == Cfg(TickMs, MinDepthUSD, FALSE)

InitCommon ==
  /\ clock = 0
  /\ bookCh = [v \in Venues |-> <<>>]
  /\ books = [v \in Venues |-> [s \in Symbols |-> NoBook]]
  /\ engines = [l \in Leaders |-> NewEngine]
  /\ execs = [l \in Leaders |-> NewExecutor]
  /\ evCalcs = [l \in Leaders |-> NewCalculator]
  /\ wire = [free |-> FALSE, tape |-> [v \in Venues |-> <<>>]]
  /\ last = [op |-> "init"]
  /\ IOIdle /\ NetIdle

\* ================================================= executor, called directly
\* One executor (the OKX link) driven by arbitrary TryOpen / Evaluate calls.
ExecLeader == ExchangeOKX

\* signals as the engine builds them (books of the far-apart pairs, either
\* side), plus signals of the other leader, with a follower book from the
\* wrong venue, or with a follower book that lacks the entry side
ExecSignal(l, s, sd, t, v, lp, fp) ==
  LET lb == BookEvent(l, s, lp[1], lp[2], MaxQty, t)
      fb == BookEvent(v, s, fp[1], fp[2], MaxQty, t)
  IN MkSignal(l, lb, fb, sd, currentSpreadBps(sd, lb, fb).bps, t)

ExecBookPairs ==
  {<<<<MaxPx - 1, MaxPx>>, <<1, 2>>>>, <<<<1, 2>>, <<MaxPx - 1, MaxPx>>>>,
   <<<<1, 2>>, <<0, 1>>>>, <<<<1, 2>>, <<1, 0>>>>}

ExecSignals ==
  {ExecSignal(l, s, sd, t, v, bp[1], bp[2]) :
     l \in Leaders, s \in Symbols, sd \in Sides, t \in Times,
     v \in {ExchangeBittap, ExchangeBinance}, bp \in ExecBookPairs}

InitExec ==
  /\ InitCommon
  /\ cfg = DefaultCfg
  /\ hist = [none |-> TRUE]

DoTryOpen ==
  \E sig \in ExecSignals :
    \E r \in {TryOpen(ExecLeader, execs[ExecLeader], sig)} :
    /\ r.ex.allocated <= MaxAlloc
    /\ execs' = [execs EXCEPT ![ExecLeader] = r.ex]
    /\ last' = [op |-> "try_open", sym |-> sig.SymbolCanon, opened |-> r.opened,
                err |-> r.err, uid |-> IF r.pos = NoPos THEN 0 ELSE r.pos.uid]
    /\ UNCHANGED <<cfg, clock, bookCh, books, engines, evCalcs, wire, hist, ioVars, netVars>>

DoExecEvaluate ==
  \E now \in Times, s \in Symbols, lp \in PxPairs, fp \in PxPairs :
    \E r \in {ExecEvaluate(ExecLeader, execs[ExecLeader], now,
                             BookEvent(ExecLeader, s, lp[1], lp[2], MaxQty, now),
                             BookEvent(ExchangeBittap, s, fp[1], fp[2], MaxQty, now))} :
    /\ execs' = [execs EXCEPT ![ExecLeader] = r.ex]
    /\ last' = [op |-> "evaluate", sym |-> s,
                uid |-> IF r.closed = NoPos THEN 0 ELSE r.closed.uid]
    /\ UNCHANGED <<cfg, clock, bookCh, books, engines, evCalcs, wire, hist, ioVars, netVars>>

NextExec == DoTryOpen \/ DoExecEvaluate

SpecExec == InitExec /\ [][NextExec]_vars

OpenCount(ex) == Cardinality({s \in Symbols : HasOpen(ex, s)})

\* C1: an executor never holds more than one non-closed position per symbol,
\* and try_open on a symbol with a non-closed position opens nothing and
\* leaves that position as it was.
C1_OnePositionPerSymbol ==
  [][\A s \in Symbols :
       (HasOpen(execs[ExecLeader], s) /\ last'.op = "try_open" /\ last'.sym = s)
         => /\ ~last'.opened
            /\ last'.uid = 0
            /\ execs'[ExecLeader].positions[s] = execs[ExecLeader].positions[s]
            /\ execs'[ExecLeader].allocated = execs[ExecLeader].allocated]_vars

C1_Witness ==
  /\ last.op = "try_open" /\ ~last.opened /\ ~last.err
  /\ HasOpen(execs[ExecLeader], last.sym)

\* C2: a closed position is final: no later try_open or evaluate changes any
\* field of it (the slot either keeps it or receives a newly allocated
\* position), and evaluate only ever returns a position that was open
\* before the call.
C2_ClosedIsFinal ==
  [][\A s \in Symbols :
       LET p == execs[ExecLeader].positions[s]
           q == execs'[ExecLeader].positions[s]
       IN /\ (p # NoPos /\ p.Closed) =>
               /\ (q = p \/ (q # NoPos /\ q.uid > p.uid /\ last'.op = "try_open"))
               /\ (last'.op = "evaluate" => last'.uid = 0)
          /\ (last'.op = "evaluate" /\ last'.sym = s /\ last'.uid # 0) =>
               /\ PosOpen(p) /\ p.uid = last'.uid
               /\ q.Closed /\ q.ExitReason \in {ExitTP, ExitSL, ExitTimeout}]_vars

C2_Witness ==
  /\ last.op = "evaluate" /\ last.uid = 0
  /\ execs[ExecLeader].positions[last.sym] # NoPos
  /\ execs[ExecLeader].positions[last.sym].Closed
  /\ TimeoutHit(MaxTick * TickMs, execs[ExecLeader].positions[last.sym])

\* ------------------------------------------------ exit conditions, C23, C24
\* One executor: positions are opened from signals, and the open position
\* is evaluated against books; each Evaluate records its inputs and the
\* position before and after.

ExitOpen ==
  \E sig \in {x \in ExecSignals : x.Leader = ExecLeader /\ x.FollowerBook.Exchange = ExchangeBittap} :
    \E r \in {TryOpen(ExecLeader, execs[ExecLeader], sig)} :
    /\ r.opened
    /\ r.ex.allocated <= MaxAlloc
    /\ execs' = [execs EXCEPT ![ExecLeader] = r.ex]
    /\ last' = [op |-> "try_open"]
    /\ UNCHANGED <<cfg, clock, bookCh, books, engines, evCalcs, wire, hist, ioVars, netVars>>

ExitEvaluate ==
  \E now \in Times, s \in Symbols, lp \in PxPairs, fp \in PxPairs :
    /\ HasOpen(execs[ExecLeader], s)
    /\ \E r \in {ExecEvaluate(ExecLeader, execs[ExecLeader], now,
                             BookEvent(ExecLeader, s, lp[1], lp[2], MaxQty, now),
                             BookEvent(ExchangeBittap, s, fp[1], fp[2], MaxQty, now))} :
         /\ execs' = [execs EXCEPT ![ExecLeader] = r.ex]
         /\ last' = [op |-> "evaluate", sym |-> s, now |-> now, lp |-> lp, fp |-> fp,
                     before |-> execs[ExecLeader].positions[s],
                     after |-> r.ex.positions[s], ret |-> r.closed]
    /\ UNCHANGED <<cfg, clock, bookCh, books, engines, evCalcs, wire, hist, ioVars, netVars>>

NextExit == ExitOpen \/ ExitEvaluate

SpecExit == InitExec /\ [][NextExit]_vars

\* the last step was an Evaluate on an open position with a usable spread
EvaluatedOpen ==
  /\ last.op = "evaluate"
  /\ PosOpen(last.before)
  /\ currentSpreadBps(last.before.Side,
                      BookEvent(ExecLeader, last.sym, last.lp[1], last.lp[2], MaxQty, last.now),
                      BookEvent(ExchangeBittap, last.sym, last.fp[1], last.fp[2], MaxQty, last.now)).ok

\* E and C: the absolute entry spread and the absolute current spread
EntryAbsOf == RatAbs(last.before.EntrySpread)

CurAbsOf ==
  RatAbs(currentSpreadBps(last.before.Side,
           BookEvent(ExecLeader, last.sym, last.lp[1], last.lp[2], MaxQty, last.now),
           BookEvent(ExchangeBittap, last.sym, last.fp[1], last.fp[2], MaxQty, last.now)).bps)

\* C <= (1 - tp_ratio) * E, cross-multiplied
TPCond ==
  /\ TPRatio.n > 0 /\ EntryAbsOf.n > 0
  /\ CurAbsOf.n * TPRatio.d * EntryAbsOf.d <= (TPRatio.d - TPRatio.n) * EntryAbsOf.n * CurAbsOf.d

\* C >= (1 + sl_ratio) * E, cross-multiplied
SLCond ==
  /\ SLRatio.n > 0 /\ EntryAbsOf.n > 0
  /\ CurAbsOf.n * SLRatio.d * EntryAbsOf.d >= (SLRatio.d + SLRatio.n) * EntryAbsOf.n * CurAbsOf.d

TimeoutCond == MaxHoldMs > 0 /\ last.now - last.before.EntryTimeNs > MaxHoldMs

ClosedWith(reason) == last.after.Closed /\ last.after.ExitReason = reason

\* C23: when the timeout condition holds together with the take-profit
\* condition the position closes with TP, together with the stop-loss
\* condition with SL, and where TP and SL both hold with TP: never with
\* a later reason
C23_ExitPriority ==
  (EvaluatedOpen /\ last.after.Closed) =>
    /\ TPCond => last.after.ExitReason = ExitTP
    /\ (SLCond /\ ~TPCond) => last.after.ExitReason = ExitSL
    /\ (TimeoutCond /\ (TPCond \/ SLCond)) => last.after.ExitReason # ExitTimeout

\* a position closed with TP on a tick on which it had also timed out
C23_Witness ==
  /\ EvaluatedOpen /\ ClosedWith(ExitTP)
  /\ TimeoutCond /\ TPCond

NoExitPrice ==
  \/ last.before.Side = SideLong /\ last.fp[1] <= 0
  \/ last.before.Side = SideShort /\ last.fp[2] <= 0

\* C38: an Evaluate that finds an exit condition true but has no exit
\* price returns nothing, and the position is afterwards the open record
\* it was, field for field
C38_NoExitPriceKeepsPosition ==
  (EvaluatedOpen /\ (TPCond \/ SLCond \/ TimeoutCond) /\ NoExitPrice) =>
    /\ last.ret = NoPos
    /\ last.after = last.before
    /\ execs[ExecLeader].positions[last.sym] = last.before

\* a LONG position past its hold time evaluated against a follower book
\* without a bid, still open
C38_Witness ==
  /\ EvaluatedOpen /\ TimeoutCond /\ NoExitPrice
  /\ last.before.Side = SideLong
  /\ ~execs[ExecLeader].positions[last.sym].Closed

\* the same for a SHORT position whose take-profit condition holds
C38_WitnessShort ==
  /\ EvaluatedOpen /\ (TPCond \/ SLCond) /\ NoExitPrice
  /\ last.before.Side = SideShort
  /\ ~execs[ExecLeader].positions[last.sym].Closed

\* =================================================== engine, called directly
\* One engine (the OKX link) driven by arbitrary NotifyStopLoss / Evaluate
\* calls, built with any of several strategy settings.  The caller reads the
\* time of each call from the monotonic clock, so times never decrease.
EngineLeader == ExchangeOKX
EngineSym == "BTCUSDT"

EngineCfgs ==
  {Cfg(p, MinDepthUSD, FALSE) : p \in {TickMs, 2 * TickMs}} \cup {Cfg(TickMs, 0, TRUE)}

\* books handed to Evaluate: one-tick-wide books at the low and the high end
\* of the price range and of either depth, and a leader book with a missing
\* side
EdgePairs == {<<1, 2>>, <<MaxPx - 1, MaxPx>>}

EngineLeaderBooks(now) ==
  {BookEvent(EngineLeader, EngineSym, lp[1], lp[2], q, now) : lp \in EdgePairs, q \in Qtys}
  \cup {BookEvent(EngineLeader, EngineSym, 0, 1, MaxQty, now)}

EngineFollowerBooks(now) ==
  {BookEvent(ExchangeBittap, EngineSym, fp[1], fp[2], MaxQty, now) : fp \in EdgePairs}

\* timeutil.NowNano at a call: the clock has stood still or moved on a tick
NowNano == {t \in Times : t = clock \/ t = clock + TickMs}

RunOff == [st |-> "off", t0 |-> 0, due |-> FALSE, fired |-> 0]

SideActive(sd, lb, fb) == IF sd = SideLong THEN LongActive(lb, fb) ELSE ShortActive(lb, fb)

Fired(r, sd) == r.sig # NoSignal /\ r.sig.Side = sd

RunAdvance(c, r, sd, now) ==
  LET base == IF c.st = "on" THEN c ELSE [st |-> "on", t0 |-> now, due |-> FALSE, fired |-> 0]
  IN [base EXCEPT !.due = @ \/ (now - base.t0 >= cfg.PersistMs),
                  !.fired = IF Fired(r, sd) /\ @ < 2 THEN @ + 1 ELSE @]

\* the run of consecutive evaluate calls (those that pass the preconditions)
\* at which the side's spread condition held, whatever filter they met
RunStep(c, r, sd, now, lb, fb) ==
  IF r.stage = "precond" THEN c
  ELSE IF ~SideActive(sd, lb, fb) THEN RunOff
  ELSE RunAdvance(c, r, sd, now)

\* the same run, ended as well by an evaluate that the depth filter stopped
NoDepthStep(c, r, sd, now, lb, fb) ==
  IF r.stage = "depth" THEN RunOff ELSE RunStep(c, r, sd, now, lb, fb)

\* the run counted only over evaluate calls that reached the spread step:
\* it starts at a call that finds the side active after a call that left the
\* candidate cleared, and is lost ("dirty") once a call is stopped by the
\* cooldown or the volatility filter, or returns a LONG signal before the
\* SHORT side is looked at
CleanStep(c, r, sd, now, lb, fb) ==
  IF r.stage = "precond" THEN c
  ELSE IF r.stage = "depth" THEN RunOff
  ELSE IF r.stage \in {"cooldown", "vol"} \/ (sd = SideShort /\ Fired(r, SideLong))
       THEN (IF c.st = "off" THEN c ELSE [RunOff EXCEPT !.st = "dirty"])
  ELSE IF ~SideActive(sd, lb, fb) THEN RunOff
  ELSE IF c.st = "dirty" THEN c
  ELSE RunAdvance(c, r, sd, now)

\* the run over the evaluate calls that were not stopped by the cooldown or
\* the volatility filter: those calls leave it as it is
SeenStep(c, r, sd, now, lb, fb) ==
  IF r.stage \in {"cooldown", "vol"} THEN c ELSE RunStep(c, r, sd, now, lb, fb)

InitEngine ==
  /\ InitCommon
  /\ cfg \in EngineCfgs
  /\ hist = [slAt |-> 0,
             run |-> [sd \in Sides |-> RunOff],
             nd |-> [sd \in Sides |-> RunOff],
             clean |-> [sd \in Sides |-> RunOff],
             seen |-> [sd \in Sides |-> RunOff],
             fires |-> [sd \in Sides |-> 0]]

DoNotifyStopLoss ==
  \E now \in NowNano :
    /\ engines' = [engines EXCEPT ![EngineLeader] =
                     NotifyStopLoss(cfg, engines[EngineLeader], EngineSym, now)]
    /\ hist' = [hist EXCEPT !.slAt = now]
    /\ last' = [op |-> "notify", now |-> now]
    /\ clock' = now
    /\ UNCHANGED <<cfg, bookCh, books, execs, evCalcs, wire, ioVars, netVars>>

DoEngineEvaluate ==
  \E now \in NowNano :
    \E lb \in EngineLeaderBooks(now), fb \in EngineFollowerBooks(now) :
      \E r \in {EngineEvaluate(cfg, EngineLeader, engines[EngineLeader], now, lb, fb)} :
      /\ engines' = [engines EXCEPT ![EngineLeader] = r.eng]
      /\ hist' = [hist EXCEPT
                    !.run = [sd \in Sides |-> RunStep(hist.run[sd], r, sd, now, lb, fb)],
                    !.nd = [sd \in Sides |-> NoDepthStep(hist.nd[sd], r, sd, now, lb, fb)],
                    !.clean = [sd \in Sides |-> CleanStep(hist.clean[sd], r, sd, now, lb, fb)],
                    !.seen = [sd \in Sides |-> SeenStep(hist.seen[sd], r, sd, now, lb, fb)],
                    !.fires = [sd \in Sides |->
                                 IF Fired(r, sd) /\ @[sd] < 2 THEN @[sd] + 1 ELSE @[sd]]]
      /\ last' = [op |-> "evaluate", now |-> now, stage |-> r.stage,
                  side |-> IF r.sig = NoSignal THEN "" ELSE r.sig.Side,
                  act |-> [sd \in Sides |-> SideActive(sd, lb, fb)]]
      /\ clock' = now
      /\ UNCHANGED <<cfg, bookCh, books, execs, evCalcs, wire, ioVars, netVars>>

NextEngine == DoNotifyStopLoss \/ DoEngineEvaluate

SpecEngine == InitEngine /\ [][NextEngine]_vars

C7_WitnessSilent ==
  /\ last.op = "evaluate" /\ hist.slAt > 0 /\ last.stage = "cooldown"
  /\ \E sd \in Sides : last.act[sd]

EngineCand(sd) ==
  IF sd = SideLong THEN engines[EngineLeader][EngineSym].longCand
  ELSE engines[EngineLeader][EngineSym].shortCand

\* the persistence statement over one of the run bookkeepings k
\* ("run" or "clean"), counting the evaluate calls whose books pass the
\* precondition checks: at an evaluate inside a run that began at t0, nothing
\* is returned while t - t0 < persist, and the side's signal is returned at
\* the first evaluate of the run with t - t0 >= persist
PersistenceOver(k) ==
  \A sd \in Sides :
    (last'.op = "evaluate" /\ last'.stage # "precond" /\ hist'[k][sd].st = "on") =>
      /\ (last'.now - hist'[k][sd].t0 < cfg.PersistMs) => last'.side = ""
      /\ (/\ last'.now - hist'[k][sd].t0 >= cfg.PersistMs
          /\ ~(hist[k][sd].st = "on" /\ hist[k][sd].due)) => last'.side = sd

C8_WitnessEarly ==
  /\ last.op = "evaluate" /\ last.side = "" /\ last.stage = "spread"
  /\ \E sd \in Sides :
       /\ hist.clean[sd].st = "on" /\ hist.clean[sd].t0 < last.now
       /\ last.now - hist.clean[sd].t0 < cfg.PersistMs

C9_WitnessRefire ==
  /\ last.op = "evaluate" /\ last.side # ""
  /\ hist.nd[last.side].fired = 1
  /\ hist.fires[last.side] = 2

\* the persistence statement read backwards, over one of the run
\* bookkeepings k: a side that fires with persist_ms > 0 is inside a run of
\* calls with its condition satisfied that began no later than its
\* candidate's start_ns
FiredInsideRun(k) ==
  \A sd \in Sides :
    (last.op = "evaluate" /\ last.side = sd /\ cfg.PersistMs > 0) =>
      /\ hist[k][sd].st = "on"
      /\ hist[k][sd].t0 <= EngineCand(sd).startNs
      /\ last.now - EngineCand(sd).startNs >= cfg.PersistMs

\* C34 as stated: with persist_ms > 0, when a side fires its spread
\* condition held at every evaluate call made since its candidate's
\* start_ns, the calls stopped by the cooldown or the volatility filter
\* included
C34_AsStated == FiredInsideRun("run")

\* what does hold: with persist_ms > 0, when a side fires at t its spread
\* condition held at every evaluate call made between its candidate's
\* start_ns and t that was not stopped by the cooldown or the volatility
\* filter, and t - start_ns >= persist_ms
HeldAtCallsThatLooked == FiredInsideRun("seen")

\* a side fires although its condition lapsed at a call inside the cooldown
\* window since its candidate started
FiredAfterLapse ==
  /\ last.op = "evaluate" /\ last.side # "" /\ cfg.PersistMs > 0
  /\ hist.seen[last.side].st = "on"
  /\ hist.seen[last.side].t0 < hist.run[last.side].t0

\* a side fires after its condition held at every call since the start
C34_Witness ==
  /\ last.op = "evaluate" /\ last.side # "" /\ cfg.PersistMs > 0
  /\ hist.run[last.side].st = "on"
  /\ hist.run[last.side].t0 = EngineCand(last.side).startNs

\* ================================================================= pipeline
\* Three venue readers push decoded events into their book channels; the
\* aggregator goroutine takes one event at a time from any channel that has
\* one and runs handleBookEvent on it.  The bittap reader follows the same
\* read loop as the two leader readers.

\* applyEVAndMaybeOpen: the executor afterwards, the signal as written to
\* the signals file, whether TryOpen was called and whether it opened
applyEVAndMaybeOpen_OpenAnyway(leader, sig, calc, ex) ==
  LET s1 == ApplyRejection(sig, EVStats(calc))
      r == TryOpen(leader, ex, s1)
  IN [ex |-> r.ex, sig |-> s1, tried |-> TRUE, opened |-> r.opened]

applyEVAndMaybeOpen(leader, sig, calc, ex) ==
  IF sig = NoSignal THEN [ex |-> ex, sig |-> sig, tried |-> FALSE, opened |-> FALSE]
  ELSE
    LET s1 == ApplyRejection(sig, EVStats(calc)) IN
    IF s1.RejectedByEV THEN [ex |-> ex, sig |-> s1, tried |-> FALSE, opened |-> FALSE]
    ELSE LET r == TryOpen(leader, ex, s1)
         IN [ex |-> r.ex, sig |-> s1, tried |-> TRUE, opened |-> r.opened]

StoreUpdate_EveryLeader(bks, ev) ==
  IF ev = NoBook THEN bks
  ELSE IF ev.Exchange \in Leaders
       THEN [v \in Venues |-> IF v \in Leaders THEN [bks[v] EXCEPT ![ev.SymbolCanon] = ev]
                              ELSE bks[v]]
       ELSE [bks EXCEPT ![ev.Exchange][ev.SymbolCanon] = ev]

\* Store.Update
StoreUpdate(bks, ev) ==
  IF ev = NoBook THEN bks
  ELSE [bks EXCEPT ![ev.Exchange][ev.SymbolCanon] = ev]

NoLink(eng, ex, calc) ==
  [eng |-> eng, ex |-> ex, calc |-> calc, sig |-> NoSignal, tried |-> FALSE,
   opened |-> FALSE, closed |-> NoPos]

\* handleBookEvent's block for one leader link, run after the store update
HandleLink(c, leader, ev, bks, eng, ex, calc) ==
  LET lb == bks[leader][ev.SymbolCanon]
      fb == bks[ExchangeBittap][ev.SymbolCanon]
  IN
  IF lb = NoBook \/ fb = NoBook THEN NoLink(eng, ex, calc)
  ELSE
    LET r1 == EngineEvaluate(c, leader, eng, ev.ArrivedAtUnixNs, lb, fb)
        a == IF r1.sig # NoSignal
             THEN applyEVAndMaybeOpen(leader, r1.sig, calc, ex)
             ELSE [ex |-> ex, sig |-> NoSignal, tried |-> FALSE, opened |-> FALSE]
        r2 == ExecEvaluate(leader, a.ex, ev.ArrivedAtUnixNs, lb, fb)
    IN [eng |-> IF r2.closed # NoPos /\ r2.closed.ExitReason = ExitSL
                THEN NotifyStopLoss(c, r1.eng, r2.closed.SymbolCanon, ev.ArrivedAtUnixNs)
                ELSE r1.eng,
        ex |-> r2.ex,
        calc |-> IF r2.closed # NoPos THEN EVAdd(calc, r2.closed) ELSE calc,
        sig |-> a.sig, tried |-> a.tried, opened |-> a.opened, closed |-> r2.closed]

\* handleBookEvent's intake test
Ignored(ev) == ev = NoBook \/ ev.Exchange = "" \/ ev.SymbolCanon = ""

\* the non-blocking send of the read loops: select { case ch <- ev: default: }
TrySend_DropOldest(ch, ev) ==
  IF Len(ch) < BookChCap THEN Append(ch, ev) ELSE Append(Tail(ch), ev)

TrySend_Front(ch, ev) ==
  IF Len(ch) < BookChCap THEN <<ev>> \o ch ELSE ch

TrySend(ch, ev) == IF Len(ch) < BookChCap THEN Append(ch, ev) ELSE ch

\* frames a venue's socket can deliver when it runs free, as the <<bid, ask>>
\* they decode to: two-sided books at the low and the high end of the price
\* range on one leader link, nothing on the other
Frames(v) == IF v = ExchangeBinance THEN {} ELSE EdgePairs

\* a recorded session, each frame <<bid, ask, arrival tick>>: the follower
\* and one leader swap price levels twice while the other leader's frames
\* keep arriving; the follower's last frame carries no bid
Session ==
  [v \in Venues |->
     IF v = ExchangeOKX THEN <<<<3, 4, 1>>, <<1, 2, 1>>, <<3, 4, 1>>>>
     ELSE IF v = ExchangeBittap
     THEN <<<<1, 2, 1>>, <<1, 2, 2>>, <<3, 4, 3>>, <<3, 4, 4>>, <<1, 2, 4>>, <<0, 1, 4>>>>
     ELSE <<<<1, 2, 2>>, <<1, 2, 3>>>>]

\* the sockets either deliver any frames at any time, as long as the
\* aggregator is at most MaxBacklog events behind, or replay the session
Wires ==
  {[free |-> TRUE, tape |-> [v \in Venues |-> <<>>]], [free |-> FALSE, tape |-> Session]}

AggCfgs == {[DefaultCfg EXCEPT !.CooldownMs = TickMs]}

InFlight == Len(bookCh[ExchangeOKX]) + Len(bookCh[ExchangeBinance]) + Len(bookCh[ExchangeBittap])

\* the frames venue v's socket has ready, each <<bid, ask, arrival time>>
Ready(v) ==
  IF wire.free
  THEN (IF InFlight < MaxBacklog
        THEN {<<px[1], px[2], now>> : px \in Frames(v), now \in NowNano} ELSE {})
  ELSE IF wire.tape[v] = <<>> \/ TickMs * Head(wire.tape[v])[3] < clock THEN {}
  ELSE {<<Head(wire.tape[v])[1], Head(wire.tape[v])[2], TickMs * Head(wire.tape[v])[3]>>}

InitAgg ==
  /\ clock = 0
  /\ bookCh = [v \in Venues |-> <<>>]
  /\ books = [v \in Venues |-> [s \in Symbols |-> NoBook]]
  /\ engines = [l \in Leaders |-> NewEngine]
  /\ execs = [l \in Leaders |-> NewExecutor]
  /\ evCalcs = [l \in Leaders |-> NewCalculator]
  /\ last = [op |-> "init"]
  /\ cfg \in AggCfgs
  /\ wire \in Wires
  /\ hist = [sl |-> [l \in Leaders |-> {}]]
  /\ IOIdle /\ NetIdle

\* one turn of a venue's readLoop: read a frame, decode it, stamp it with
\* the arrival time, offer it to the book channel
Decode(v, f) == BookEvent(v, EngineSym, f[1], f[2], MaxQty, f[3])

ReadFrom(v) ==
  \E f \in Ready(v) :
    /\ clock' = f[3]
    /\ bookCh' = [bookCh EXCEPT ![v] = TrySend(@, Decode(v, f))]
    /\ wire' = IF wire.free THEN wire ELSE [wire EXCEPT !.tape[v] = Tail(@)]
    /\ last' = [op |-> "read", venue |-> v, frame |-> f,
                dropped |-> Len(bookCh[v]) >= BookChCap]
    /\ UNCHANGED <<cfg, books, engines, execs, evCalcs, hist, ioVars, netVars>>

ReadLoop == \E v \in Venues : ReadFrom(v)

LinkResult(r) ==
  [fired |-> r.sig # NoSignal,
   rejected |-> r.sig # NoSignal /\ r.sig.RejectedByEV,
   tried |-> r.tried, opened |-> r.opened,
   closed |-> IF r.closed = NoPos THEN "" ELSE r.closed.ExitReason]

\* one turn of runAggregator's select: receive from a channel that has an
\* event and run handleBookEvent on it
Aggregate ==
  \E v \in Venues :
    /\ bookCh[v] # <<>>
    /\ LET ev == Head(bookCh[v]) IN
       /\ bookCh' = [bookCh EXCEPT ![v] = Tail(@)]
       /\ IF Ignored(ev)
          THEN /\ last' = [op |-> "ignore", venue |-> v]
               /\ UNCHANGED <<books, engines, execs, evCalcs, hist>>
          ELSE \E bks \in {StoreUpdate(books, ev)} :
               \E rs \in {[l \in Leaders |->
                             HandleLink(cfg, l, ev, bks, engines[l], execs[l], evCalcs[l])]} :
                 /\ books' = bks
                 /\ engines' = [l \in Leaders |-> rs[l].eng]
                 /\ execs' = [l \in Leaders |-> rs[l].ex]
                 /\ evCalcs' = [l \in Leaders |-> rs[l].calc]
                 /\ last' = [op |-> "handle", venue |-> v, now |-> ev.ArrivedAtUnixNs,
                             res |-> [l \in Leaders |-> LinkResult(rs[l])]]
                 /\ hist' = [sl |-> [l \in Leaders |->
                                IF rs[l].closed # NoPos /\ rs[l].closed.ExitReason = ExitSL
                                THEN hist.sl[l] \cup {ev.ArrivedAtUnixNs} ELSE hist.sl[l]]]
    /\ UNCHANGED <<cfg, clock, wire, ioVars, netVars>>

NextAgg == ReadLoop \/ Aggregate

SpecAgg == InitAgg /\ [][NextAgg]_vars

\* C3: every stored book event is valid
C3_StoredValid ==
  \A v \in Venues, s \in Symbols : books[v][s] # NoBook => IsValid(books[v][s])

C3_Witness ==
  /\ last.op = "handle"
  /\ \E v \in Venues, s \in Symbols : books[v][s] # NoBook /\ ~IsValid(books[v][s])

\* C33: every closed position has exit_time_ns >= entry_time_ns, whatever
\* the order in which the aggregator takes the events of the three channels
C33_HoldTimeNotNegative ==
  \A l \in Leaders, s \in Symbols :
    (execs[l].positions[s] # NoPos /\ execs[l].positions[s].Closed) =>
      execs[l].positions[s].ExitTimeNs >= execs[l].positions[s].EntryTimeNs

\* a position closed by an event stamped later than the one that opened it
C33_Witness ==
  /\ last.op = "handle"
  /\ \E l \in Leaders, s \in Symbols :
       /\ last.res[l].closed # ""
       /\ execs[l].positions[s] # NoPos /\ execs[l].positions[s].Closed
       /\ execs[l].positions[s].ExitTimeNs = last.now
       /\ execs[l].positions[s].ExitTimeNs > execs[l].positions[s].EntryTimeNs

\* link l is left exactly as it was
LinkUntouched(l) ==
  /\ engines'[l] = engines[l] /\ execs'[l] = execs[l] /\ evCalcs'[l] = evCalcs[l]
  /\ last'.res[l] = LinkResult(NoLink(engines[l], execs[l], evCalcs[l]))

\* C35 as stated: handling an event that arrived from one leader changes
\* nothing of the other leader's link: no signal, no position opened or
\* closed, engine, executor and EV state as before
C35_AsStated ==
  [][(last'.op = "handle" /\ last'.venue \in Leaders) =>
       \A l \in Leaders \ {last'.venue} : LinkUntouched(l)]_vars

\* C35: handling an event that arrived from one leader leaves the other
\* leader's stored books alone and runs the other link on its own stored
\* pair at the event's time: what the other link does is what it would do
\* had the event carried no prices at all, a position it opens carries its
\* own leader and the event's time, and with its leader's or the follower's
\* book missing it is left exactly as it was
C35_LinksIsolated ==
  [][(last'.op = "handle" /\ last'.venue \in Leaders) =>
       \A l \in Leaders \ {last'.venue} :
         LET ev == Head(bookCh[last'.venue])
             blank == [ev EXCEPT !.BestBidPx = 0, !.BestAskPx = 0, !.Qty = 0]
             r == HandleLink(cfg, l, blank, books, engines[l], execs[l], evCalcs[l])
         IN /\ books'[l] = books[l]
            /\ books'[ExchangeBittap] = books[ExchangeBittap]
            /\ engines'[l] = r.eng /\ execs'[l] = r.ex /\ evCalcs'[l] = r.calc
            /\ (books[l][ev.SymbolCanon] = NoBook
                  \/ books[ExchangeBittap][ev.SymbolCanon] = NoBook) => LinkUntouched(l)
            /\ last'.res[l].opened =>
                 /\ execs'[l].positions[ev.SymbolCanon].Leader = l
                 /\ execs'[l].positions[ev.SymbolCanon].EntryTimeNs = last'.now]_vars

\* an event of one leader is handled and the other leader's link fires and
\* opens a position
C35_Witness ==
  /\ last.op = "handle" /\ last.venue \in Leaders
  /\ \E l \in Leaders \ {last.venue} : last.res[l].fired /\ last.res[l].opened

\* the EV snapshot of leader l's calculator says count > 0 and EV < 0
NegativeEV(l) ==
  EVStats(evCalcs[l]).Count > 0 /\ RatLt(EVStats(evCalcs[l]).EV, RatZero)

\* no position of leader l is new: every position record after the step is
\* the record of the same position before it, open or closed
NoNewPosition(l) ==
  /\ execs'[l].allocated = execs[l].allocated
  /\ \A s \in Symbols :
       execs'[l].positions[s] # NoPos =>
         /\ execs[l].positions[s] # NoPos
         /\ execs'[l].positions[s].uid = execs[l].positions[s].uid

\* leader l's EV snapshot is negative while its executor holds no open
\* position
Absorbed(l) ==
  /\ NegativeEV(l)
  /\ \A s \in Symbols : ~PosOpen(execs[l].positions[s])

\* C36: once leader l's EV snapshot has count > 0 and EV < 0 while its
\* executor holds no open position, every step keeps it so: every signal
\* of l is rejected, no position is opened on link l and l's EV window
\* does not change
C36_RejectionAbsorbing ==
  [][\A l \in Leaders :
       Absorbed(l) =>
         /\ evCalcs'[l] = evCalcs[l]
         /\ NoNewPosition(l)
         /\ \A s \in Symbols : ~PosOpen(execs'[l].positions[s])
         /\ (last'.op = "handle" /\ last'.res[l].fired) =>
              last'.res[l].rejected /\ ~last'.res[l].tried /\ ~last'.res[l].opened
         /\ (last'.op = "handle") => last'.res[l].closed = ""]_vars

\* a signal of a link is rejected a step after the link was absorbed with
\* a single losing sample in its window
C36_Witness ==
  /\ last.op = "handle"
  /\ \E l \in Leaders :
       /\ Absorbed(l) /\ evCalcs[l].count = 1
       /\ last.res[l].fired /\ last.res[l].rejected
       /\ last.res[l].closed = ""

\* C4: a signal marked rejected_by_ev, and so any signal returned while
\* its leader's EV snapshot has count > 0 and EV < 0, does not reach
\* try_open and adds no position to that leader's executor
C4_RejectedNeverOpens ==
  [][\A l \in Leaders :
       (last'.op = "handle" /\ last'.res[l].fired
          /\ (last'.res[l].rejected \/ NegativeEV(l)))
         => /\ last'.res[l].rejected
            /\ ~last'.res[l].tried /\ ~last'.res[l].opened
            /\ NoNewPosition(l)]_vars

C4_Witness ==
  /\ last.op = "handle"
  /\ \E l \in Leaders :
       /\ last.res[l].fired /\ last.res[l].rejected /\ ~last.res[l].tried
       /\ \A s \in Symbols : ~PosOpen(execs[l].positions[s])

\* C5: a returned signal carries rejected_by_ev exactly when the EV snapshot
\* of its own leader, taken when it fired, has count > 0 and EV < 0
C5_RejectedIff ==
  [][\A l \in Leaders :
       (last'.op = "handle" /\ last'.res[l].fired)
         => (last'.res[l].rejected <=> NegativeEV(l))]_vars

\* a signal fires while its own leader's snapshot is negative and the
\* other leader's is not
C5_Witness ==
  /\ last.op = "handle"
  /\ \E l \in Leaders :
       /\ last.res[l].fired /\ last.res[l].rejected
       /\ \E k \in Leaders \ {l} : ~NegativeEV(k)

\* a signal fires with trades in its leader's window, EV not negative
C5_WitnessAccepted ==
  /\ last.op = "handle"
  /\ \E l \in Leaders :
       /\ last.res[l].fired /\ ~last.res[l].rejected /\ last.res[l].tried
       /\ EVStats(evCalcs[l]).Count > 0

\* C6: once a position of leader l was closed with reason SL while the
\* event stamped T was handled, no later event whose stamp lies in
\* [T, T + cooldown) makes l's engine return a signal
C6_CooldownAfterSL ==
  [][\A l \in Leaders :
       (last'.op = "handle" /\ last'.res[l].fired) =>
         \A T \in hist.sl[l] : ~(T <= last'.now /\ last'.now < T + cfg.CooldownMs)]_vars

\* C6, first half: handling an event that closes a position of leader l
\* with reason SL leaves l's cooldown armed at the event's stamp
C6_ArmedInSameEvent ==
  \A l \in Leaders :
    (last.op = "handle" /\ last.res[l].closed = ExitSL)
      => engines[l][EngineSym].cooldownUntilNs = last.now + cfg.CooldownMs

C6_Witness ==
  /\ last.op = "handle"
  /\ \E l \in Leaders : last.res[l].closed = ExitSL

\* C10: a read loop turn is never held up by its book channel: with room
\* in the channel the decoded event is appended, with the channel full the
\* event is dropped and the channel is left as it was; either way the read
\* loop has consumed the frame and no other channel is touched
C10_ReaderNeverBlocks ==
  /\ [](\A v \in Venues : Ready(v) # {} => ENABLED ReadFrom(v))
  /\ [][last'.op = "read" =>
          /\ bookCh'[last'.venue] =
               IF Len(bookCh[last'.venue]) < BookChCap
               THEN Append(bookCh[last'.venue], Decode(last'.venue, last'.frame))
               ELSE bookCh[last'.venue]
          /\ \A u \in Venues \ {last'.venue} : bookCh'[u] = bookCh[u]
          /\ ~wire.free => wire'.tape[last'.venue] = Tail(wire.tape[last'.venue])]_vars

\* a frame is read while the channel holds BookChCap undelivered events
C10_Witness ==
  /\ last.op = "read" /\ last.dropped
  /\ Len(bookCh[last.venue]) = BookChCap
  /\ bookCh[last.venue][BookChCap] # Decode(last.venue, last.frame)

\* the events of a book channel carry arrival stamps that never decrease
\* from the receiving end to the sending end
InReadOrder(ch) ==
  \A i, j \in 1..Len(ch) : i < j => ch[i].ArrivedAtUnixNs <= ch[j].ArrivedAtUnixNs

\* C11: the aggregator handles the events of one venue in the order the
\* venue's reader stamped them: the stamp of every event it handles is at
\* least the stamp of the event it handled before from the same venue (the
\* one the store holds for that venue), and at most the stamp of every
\* event still waiting in the venue's channel, whatever the other venues do
\* and whatever was dropped on a full channel
C11_VenueFIFO ==
  /\ [](\A v \in Venues : InReadOrder(bookCh[v]))
  /\ [][\A v \in Venues :
          (last'.op = "handle" /\ last'.venue = v) =>
            /\ books[v][EngineSym] # NoBook =>
                 books[v][EngineSym].ArrivedAtUnixNs <= last'.now
            /\ books'[v][EngineSym].ArrivedAtUnixNs = last'.now
            /\ \A i \in 1..Len(bookCh'[v]) : last'.now <= bookCh'[v][i].ArrivedAtUnixNs]_vars

\* an event is handled after an earlier one of its venue while a later one
\* of the same venue and an event of another venue wait in their channels
C11_Witness ==
  /\ last.op = "handle"
  /\ bookCh[last.venue] # <<>>
  /\ last.now < Head(bookCh[last.venue]).ArrivedAtUnixNs
  /\ \E u \in Venues \ {last.venue} :
       bookCh[u] # <<>> /\ Head(bookCh[u]).ArrivedAtUnixNs < last.now


\* ============================================================= JSONL writer
\* jsonl.Writer: Write, Flush and Close put operations on a buffered
\* channel (capacity OpCap, the buffer_size setting); one goroutine (loop)
\* takes them in order, encodes each value to a line and writes it through
\* a bufio.Writer that holds up to BufLines lines (1 MiB in the code)
\* before it spills to the file.

NoReply == [none |-> TRUE]

opWrite == "write"
opFlush == "flush"
opClose == "close"

\* NewWriter: an empty channel, an empty buffer, the loop started
NewWriter ==
  [ch |-> <<>>, bw |-> <<>>, bwErr |-> FALSE, file |-> <<>>, closed |-> FALSE,
   reply |-> NoReply, loop |-> "run"]

\* json.Marshal(v) followed by the newline byte
JSONLine(v) == [json |-> v, nl |-> TRUE]

\* a send on the operation channel has to wait while the channel is full
SendBlocks(w) == Len(w.ch) >= OpCap

\* Writer.Write once its send can go through: an error and nothing sent on
\* a closed writer, else the value queued
WriterWrite(w, v) ==
  IF w.closed THEN w ELSE [w EXCEPT !.ch = Append(@, [typ |-> opWrite, val |-> v])]

\* Writer.Flush up to its wait for the reply
WriterFlushSend(w) ==
  IF w.closed THEN w ELSE [w EXCEPT !.ch = Append(@, [typ |-> opFlush])]

\* Writer.Close up to its wait for the reply
WriterCloseSend(w) == [w EXCEPT !.closed = TRUE, !.ch = Append(@, [typ |-> opClose])]

\* bufio.Writer.Write of one line: after an error every call fails; a line
\* that does not fit makes the buffer spill to the file first
BufWrite_NoSpill(w, line, ok) ==
  IF w.bwErr THEN w
  ELSE IF Len(w.bw) < BufLines THEN [w EXCEPT !.bw = Append(@, line)]
  ELSE [w EXCEPT !.bw = <<line>>]

BufWrite(w, line, ok) ==
  IF w.bwErr THEN w
  ELSE IF Len(w.bw) < BufLines THEN [w EXCEPT !.bw = Append(@, line)]
  ELSE IF ok THEN [w EXCEPT !.file = @ \o w.bw, !.bw = <<line>>]
  ELSE [w EXCEPT !.bwErr = TRUE]

\* bufio.Writer.Flush
BufFlush(w, ok) ==
  IF w.bwErr \/ w.bw = <<>> THEN w
  ELSE IF ok THEN [w EXCEPT !.file = @ \o w.bw, !.bw = <<>>]
  ELSE [w EXCEPT !.bwErr = TRUE]

\* one turn of Writer.loop on the oldest operation; a failed write of a
\* line is skipped (continue), Flush and Close answer with the flush error
WriterLoop(w, ok) ==
  LET req == Head(w.ch)
      w1 == [w EXCEPT !.ch = Tail(@)]
  IN
  IF req.typ = opWrite THEN BufWrite(w1, JSONLine(req.val), ok)
  ELSE LET f == BufFlush(w1, ok) IN
       [f EXCEPT !.reply = [err |-> f.bwErr],
                 !.loop = IF req.typ = opClose THEN "exited" ELSE @]

LoopReady(w) == w.loop = "run" /\ w.ch # <<>> /\ w.reply = NoReply

\* the lines a writer still owes its file, oldest first
QueuedLines(w) ==
  LET F[i \in 0..Len(w.ch)] ==
        IF i = 0 THEN <<>>
        ELSE IF w.ch[i].typ = opWrite THEN Append(F[i - 1], JSONLine(w.ch[i].val))
        ELSE F[i - 1]
  IN w.bw \o F[Len(w.ch)]

\* ---------------------------------------------- one writer and its caller
\* A single goroutine calls Write with the values 1, 2, ... and Flush in
\* any order, then Close, and may call Write again after Close; the file
\* system may refuse writes for a while.

TheWriter == "out"

InitWriter ==
  /\ clock = 0
  /\ bookCh = [v \in Venues |-> <<>>]
  /\ books = [v \in Venues |-> [sy \in Symbols |-> NoBook]]
  /\ engines = [l \in Leaders |-> NewEngine]
  /\ execs = [l \in Leaders |-> NewExecutor]
  /\ evCalcs = [l \in Leaders |-> NewCalculator]
  /\ wire = [free |-> FALSE, tape |-> [v \in Venues |-> <<>>]]
  /\ cfg = DefaultCfg
  /\ NetIdle
  /\ writers = [n \in {TheWriter} |-> NewWriter]
  /\ disk = TRUE
  /\ proc = [pc |-> "idle", next |-> 1, closeErr |-> FALSE]
  /\ last = [op |-> "init"]
  /\ hist = [accepted |-> <<>>, faults |-> 0, wasFull |-> FALSE, diskAtClose |-> TRUE]

pipeVars == <<cfg, clock, bookCh, books, engines, execs, evCalcs, wire>>

\* Write(v) returns: nil with v queued, or the error of a closed writer
CallWrite ==
  /\ proc.pc \in {"idle", "closed"} /\ proc.next <= MaxRec
  /\ ~SendBlocks(writers[TheWriter]) \/ writers[TheWriter].closed
  /\ writers' = [writers EXCEPT ![TheWriter] = WriterWrite(@, proc.next)]
  /\ proc' = [proc EXCEPT !.next = @ + 1]
  /\ last' = [op |-> "write", val |-> proc.next, err |-> writers[TheWriter].closed]
  /\ hist' = [hist EXCEPT
                !.accepted = IF writers[TheWriter].closed THEN @ ELSE Append(@, proc.next),
                !.wasFull = @ \/ Len(writers'[TheWriter].ch) = OpCap]
  /\ UNCHANGED <<pipeVars, netVars, disk>>

CallFlush ==
  /\ proc.pc = "idle"
  /\ ~SendBlocks(writers[TheWriter])
  /\ writers' = [writers EXCEPT ![TheWriter] = WriterFlushSend(@)]
  /\ proc' = [proc EXCEPT !.pc = "flushing"]
  /\ last' = [op |-> "flush"]
  /\ UNCHANGED <<pipeVars, netVars, disk, hist>>

FlushReturns ==
  /\ proc.pc = "flushing"
  /\ writers[TheWriter].reply # NoReply
  /\ writers' = [writers EXCEPT ![TheWriter].reply = NoReply]
  /\ proc' = [proc EXCEPT !.pc = "idle"]
  /\ last' = [op |-> "flushed", err |-> writers[TheWriter].reply.err]
  /\ UNCHANGED <<pipeVars, netVars, disk, hist>>

CallClose ==
  /\ proc.pc = "idle"
  /\ ~SendBlocks(writers[TheWriter])
  /\ writers' = [writers EXCEPT ![TheWriter] = WriterCloseSend(@)]
  /\ proc' = [proc EXCEPT !.pc = "closing"]
  /\ last' = [op |-> "close"]
  /\ UNCHANGED <<pipeVars, netVars, disk, hist>>

CloseReturns ==
  /\ proc.pc = "closing"
  /\ writers[TheWriter].reply # NoReply /\ writers[TheWriter].loop = "exited"
  /\ writers' = [writers EXCEPT ![TheWriter].reply = NoReply]
  /\ proc' = [proc EXCEPT !.pc = "closed", !.closeErr = writers[TheWriter].reply.err]
  /\ last' = [op |-> "closed", err |-> writers[TheWriter].reply.err]
  /\ UNCHANGED <<pipeVars, netVars, disk, hist>>

LoopTurn ==
  /\ LoopReady(writers[TheWriter])
  /\ writers' = [writers EXCEPT ![TheWriter] = WriterLoop(@, disk)]
  /\ last' = [op |-> "loop", typ |-> Head(writers[TheWriter].ch).typ]
  /\ hist' = [hist EXCEPT !.diskAtClose =
                 IF Head(writers[TheWriter].ch).typ = opClose THEN disk ELSE @]
  /\ UNCHANGED <<pipeVars, netVars, disk, proc>>

DiskFails ==
  /\ disk /\ hist.faults < MaxFaults
  /\ disk' = FALSE
  /\ hist' = [hist EXCEPT !.faults = @ + 1]
  /\ last' = [op |-> "diskfails"]
  /\ UNCHANGED <<pipeVars, netVars, writers, proc>>

DiskRecovers ==
  /\ ~disk
  /\ disk' = TRUE
  /\ last' = [op |-> "diskrecovers"]
  /\ UNCHANGED <<pipeVars, netVars, writers, proc, hist>>

NextWriter ==
  \/ CallWrite \/ CallFlush \/ FlushReturns \/ CallClose \/ CloseReturns
  \/ LoopTurn \/ DiskFails \/ DiskRecovers

SpecWriter == InitWriter /\ [][NextWriter]_vars

AcceptedLines == [i \in 1..Len(hist.accepted) |-> JSONLine(hist.accepted[i])]

C17_FailedWriteRetried ==
  (proc.pc = "closed" /\ hist.diskAtClose) => writers[TheWriter].file = AcceptedLines

\* the file system refused a write of the loop and accepts writes again
C17_Witness ==
  /\ writers[TheWriter].bwErr /\ disk
  /\ writers[TheWriter].loop = "run"
  /\ hist.accepted # <<>>


\* ================================================== main: run and shut down
\* The whole process with the three outputs enabled: the venue readers, the
\* aggregator (runAggregator with its metrics ticker), the three writers
\* with their loop goroutines, cancellation by a signal, and main's
\* shutdown sequence with its closing goroutine and its deadline.

SignalsFile == "signals"
PaperFile == "paper"
MetricsFile == "metrics"

Files == {SignalsFile, PaperFile, MetricsFile}

\* the order in which the closing goroutine closes clients and writers
CloseOrder ==
  <<ExchangeOKX, ExchangeBinance, ExchangeBittap, SignalsFile, PaperFile, MetricsFile>>

\* a recorded session for one link: the leader leads by two price levels
\* for one persistence period, a position is opened, then the leader
\* comes back and the position is closed
MainSession ==
  [v \in Venues |->
     IF v = ExchangeOKX THEN <<<<3, 4, 1>>, <<2, 3, 3>>>>
     ELSE IF v = ExchangeBittap THEN <<<<1, 2, 1>>, <<1, 2, 2>>>>
     ELSE <<>>]

\* the records handleBookEvent hands to the writers for one event, in the
\* order of its Write calls: per leader link the signal, then the trade
SignalRec(l, at) == [kind |-> "signal", leader |-> l, at |-> at]

TradeRec(l, at, reason) == [kind |-> "trade", leader |-> l, at |-> at, reason |-> reason]

metricsSnapshot(n, final) == [kind |-> "metrics", n |-> n, final |-> final]

LinkWrites_SignalsOnly(l, r, at) ==
  IF r.sig # NoSignal THEN <<[w |-> SignalsFile, rec |-> SignalRec(l, at)]>> ELSE <<>>

LinkWrites(l, r, at) ==
  (IF r.sig # NoSignal THEN <<[w |-> SignalsFile, rec |-> SignalRec(l, at)]>> ELSE <<>>)
  \o (IF r.closed # NoPos
      THEN <<[w |-> PaperFile, rec |-> TradeRec(l, at, r.closed.ExitReason)]>> ELSE <<>>)

EventWrites(rs, at) ==
  LinkWrites(ExchangeOKX, rs[ExchangeOKX], at)
    \o LinkWrites(ExchangeBinance, rs[ExchangeBinance], at)

InitMain ==
  /\ clock = 0
  /\ bookCh = [v \in Venues |-> <<>>]
  /\ books = [v \in Venues |-> [sy \in Symbols |-> NoBook]]
  /\ engines = [l \in Leaders |-> NewEngine]
  /\ execs = [l \in Leaders |-> NewExecutor]
  /\ evCalcs = [l \in Leaders |-> NewCalculator]
  /\ cfg \in AggCfgs
  /\ wire = [free |-> FALSE, tape |-> MainSession]
  /\ NetIdle
  /\ writers = [n \in Files |-> NewWriter]
  /\ disk = TRUE
  /\ proc = [ctx |-> "live", agg |-> "select", pend |-> <<>>, ticks |-> 0,
             main |-> "run", closer |-> 0, closing |-> FALSE,
             readers |-> [v \in Venues |-> "run"], held |-> [v \in Venues |-> NoBook],
             chClosed |-> [v \in Venues |-> FALSE], exit |-> ""]
  /\ last = [op |-> "init"]
  /\ hist = [accepted |-> [n \in Files |-> <<>>], produced |-> [n \in Files |-> 0],
             owed |-> [v \in Venues |-> 0]]

Running == proc.exit = ""

\* ---- venue readers
\* a turn of readLoop before cancellation
ReaderTurn ==
  \E v \in Venues :
    /\ Running /\ proc.ctx = "live" /\ proc.readers[v] = "run"
    /\ ReadFrom(v)

\* after cancellation a reader that was waiting in ReadMessage still gets
\* the frame it was waiting for and parses it
ReaderLastRead ==
  \E v \in Venues : \E f \in Ready(v) :
    /\ Running /\ proc.ctx = "done" /\ proc.readers[v] = "run" /\ ~proc.chClosed[v]
    /\ clock' = f[3]
    /\ wire' = [wire EXCEPT !.tape[v] = Tail(@)]
    /\ proc' = [proc EXCEPT !.readers[v] = "held", !.held[v] = Decode(v, f)]
    /\ last' = [op |-> "lastread", venue |-> v]
    /\ UNCHANGED <<cfg, bookCh, books, engines, execs, evCalcs, writers, disk, hist, netVars>>

\* ... and offers the event to its book channel: a send on a channel that
\* Close has closed meanwhile panics and ends the process
ReaderLastSend ==
  \E v \in Venues :
    /\ Running /\ proc.readers[v] = "held"
    /\ IF proc.chClosed[v]
       THEN /\ proc' = [proc EXCEPT !.exit = "panic"]
            /\ UNCHANGED bookCh
       ELSE /\ bookCh' = [bookCh EXCEPT ![v] = TrySend(@, proc.held[v])]
            /\ proc' = [proc EXCEPT !.readers[v] = "stopped", !.held[v] = NoBook]
    /\ last' = [op |-> "lastsend", venue |-> v, panic |-> proc.chClosed[v]]
    /\ UNCHANGED <<cfg, clock, books, engines, execs, evCalcs, wire, writers, disk, hist, netVars>>

\* the loop head sees ctx.Done, or ReadMessage fails on the closed socket
ReaderStops ==
  \E v \in Venues :
    /\ Running /\ proc.ctx = "done" /\ proc.readers[v] = "run"
    /\ proc' = [proc EXCEPT !.readers[v] = "stopped"]
    /\ last' = [op |-> "readerstops", venue |-> v]
    /\ UNCHANGED <<pipeVars, writers, disk, hist, netVars>>

\* ---- the aggregator
AggIdle_Always(p) == p.agg \in {"select", "write"}

\* the aggregator is at its select
AggIdle(p) == p.agg = "select"

\* select picks a venue channel that has an event: handleBookEvent
AggRecv ==
  \E v \in Venues :
    /\ Running /\ proc.agg = "select" /\ bookCh[v] # <<>>
    /\ LET ev == Head(bookCh[v]) IN
       /\ bookCh' = [bookCh EXCEPT ![v] = Tail(@)]
       /\ \E bks \in {IF Ignored(ev) THEN books ELSE StoreUpdate(books, ev)} :
          \E rs \in {[l \in Leaders |->
                        IF Ignored(ev) THEN NoLink(engines[l], execs[l], evCalcs[l])
                        ELSE HandleLink(cfg, l, ev, bks, engines[l], execs[l], evCalcs[l])]} :
          \E ws \in {EventWrites(rs, ev.ArrivedAtUnixNs)} :
            /\ books' = bks
            /\ engines' = [l \in Leaders |-> rs[l].eng]
            /\ execs' = [l \in Leaders |-> rs[l].ex]
            /\ evCalcs' = [l \in Leaders |-> rs[l].calc]
            /\ proc' = [proc EXCEPT !.pend = ws,
                                    !.agg = IF ws = <<>> THEN "select" ELSE "write"]
            /\ last' = [op |-> "handle", venue |-> v, now |-> ev.ArrivedAtUnixNs,
                        res |-> [l \in Leaders |-> LinkResult(rs[l])]]
            /\ hist' = [hist EXCEPT
                 !.produced = [n \in Files |->
                    @[n] + Cardinality({i \in 1..Len(ws) : ws[i].w = n})],
                 !.owed[v] = IF @ > 0 THEN @ - 1 ELSE 0]
    /\ UNCHANGED <<cfg, clock, wire, writers, disk, netVars>>

\* the next Write call of the handler or of the ticker branch goes through
AggWrite ==
  /\ Running /\ proc.agg = "write" /\ proc.pend # <<>>
  /\ LET c == Head(proc.pend) IN
     /\ ~SendBlocks(writers[c.w]) \/ writers[c.w].closed
     /\ writers' = [writers EXCEPT ![c.w] = WriterWrite(@, c.rec)]
     /\ hist' = [hist EXCEPT !.accepted[c.w] =
                   IF writers[c.w].closed THEN @ ELSE Append(@, c.rec)]
     /\ proc' = [proc EXCEPT !.pend = Tail(@),
                   !.agg = IF c.w = MetricsFile /\ Len(proc.pend) = 1 THEN "flushsend"
                           ELSE IF Len(proc.pend) = 1 THEN "select" ELSE "write"]
     /\ last' = [op |-> "aggwrite", w |-> c.w, rec |-> c.rec]
  /\ UNCHANGED <<pipeVars, disk, netVars>>

\* select picks the metrics ticker: build the snapshot and Write it
AggTick ==
  /\ Running /\ AggIdle(proc) /\ proc.ticks < MaxSnap
  /\ proc' = [proc EXCEPT
                !.pend = <<[w |-> MetricsFile, rec |-> metricsSnapshot(proc.ticks + 1, FALSE)]>>
                           \o proc.pend,
                !.ticks = @ + 1, !.agg = "write"]
  /\ last' = [op |-> "tick"]
  /\ UNCHANGED <<pipeVars, writers, disk, hist, netVars>>

\* ... then metricsWriter.Flush(): send the operation
AggFlushSend ==
  /\ Running /\ proc.agg = "flushsend"
  /\ ~SendBlocks(writers[MetricsFile])
  /\ writers' = [writers EXCEPT ![MetricsFile] = WriterFlushSend(@)]
  /\ proc' = [proc EXCEPT !.agg = "flushwait"]
  /\ last' = [op |-> "aggflush"]
  /\ UNCHANGED <<pipeVars, disk, hist, netVars>>

\* ... and wait for the writer's answer
AggFlushReturns ==
  /\ Running /\ proc.agg = "flushwait"
  /\ writers[MetricsFile].reply # NoReply
  /\ writers' = [writers EXCEPT ![MetricsFile].reply = NoReply]
  /\ proc' = [proc EXCEPT !.agg = IF proc.pend = <<>> THEN "select" ELSE "write"]
  /\ last' = [op |-> "aggflushed"]
  /\ UNCHANGED <<pipeVars, disk, hist, netVars>>

\* select picks ctx.Done: runAggregator returns
AggReturn ==
  /\ Running /\ proc.agg = "select" /\ proc.ctx = "done"
  /\ proc' = [proc EXCEPT !.agg = "returned", !.main = "finalwrite"]
  /\ last' = [op |-> "aggreturn"]
  /\ UNCHANGED <<pipeVars, writers, disk, hist, netVars>>

\* ---- the writers' loop goroutines
WriterTurn ==
  \E n \in Files :
    /\ Running /\ LoopReady(writers[n])
    /\ writers' = [writers EXCEPT ![n] = WriterLoop(@, disk)]
    /\ last' = [op |-> "loop", w |-> n, typ |-> Head(writers[n].ch).typ]
    /\ UNCHANGED <<pipeVars, disk, proc, hist, netVars>>

\* ---- main
\* SIGINT / SIGTERM: cancel()
Cancel ==
  /\ Running /\ proc.ctx = "live"
  /\ proc' = [proc EXCEPT !.ctx = "done"]
  /\ hist' = [hist EXCEPT !.owed = [v \in Venues |-> Len(bookCh[v])]]
  /\ last' = [op |-> "cancel"]
  /\ UNCHANGED <<pipeVars, writers, disk, netVars>>

\* after runAggregator: the last metrics snapshot, Write then Flush
MainFinalWrite ==
  /\ Running /\ proc.main = "finalwrite"
  /\ ~SendBlocks(writers[MetricsFile])
  /\ writers' = [writers EXCEPT
                   ![MetricsFile] = WriterWrite(@, metricsSnapshot(proc.ticks + 1, TRUE))]
  /\ hist' = [hist EXCEPT !.accepted[MetricsFile] =
                Append(@, metricsSnapshot(proc.ticks + 1, TRUE))]
  /\ proc' = [proc EXCEPT !.main = "finalflush"]
  /\ last' = [op |-> "finalwrite"]
  /\ UNCHANGED <<pipeVars, disk, netVars>>

MainFinalFlush ==
  /\ Running /\ proc.main = "finalflush"
  /\ ~SendBlocks(writers[MetricsFile])
  /\ writers' = [writers EXCEPT ![MetricsFile] = WriterFlushSend(@)]
  /\ proc' = [proc EXCEPT !.main = "finalwait"]
  /\ last' = [op |-> "finalflush"]
  /\ UNCHANGED <<pipeVars, disk, hist, netVars>>

\* the flush is answered; main starts the closing goroutine and waits for
\* it or for the shutdown deadline
MainFinalFlushed ==
  /\ Running /\ proc.main = "finalwait"
  /\ writers[MetricsFile].reply # NoReply
  /\ writers' = [writers EXCEPT ![MetricsFile].reply = NoReply]
  /\ proc' = [proc EXCEPT !.main = "closing", !.closer = 1]
  /\ last' = [op |-> "finalflushed"]
  /\ UNCHANGED <<pipeVars, disk, hist, netVars>>

\* the closing goroutine: Client.Close of the next client
CloseClient ==
  /\ Running /\ proc.main = "closing" /\ proc.closer \in 1..Len(CloseOrder)
  /\ CloseOrder[proc.closer] \in Venues
  /\ proc' = [proc EXCEPT !.chClosed[CloseOrder[proc.closer]] = TRUE, !.closer = @ + 1]
  /\ last' = [op |-> "closeclient", venue |-> CloseOrder[proc.closer]]
  /\ UNCHANGED <<pipeVars, writers, disk, hist, netVars>>

\* the closing goroutine: Writer.Close of the next writer, up to its wait
CloseWriter ==
  /\ Running /\ proc.main = "closing" /\ proc.closer \in 1..Len(CloseOrder)
  /\ CloseOrder[proc.closer] \in Files /\ ~proc.closing
  /\ ~SendBlocks(writers[CloseOrder[proc.closer]])
  /\ writers' = [writers EXCEPT ![CloseOrder[proc.closer]] = WriterCloseSend(@)]
  /\ proc' = [proc EXCEPT !.closing = TRUE]
  /\ last' = [op |-> "closewriter", w |-> CloseOrder[proc.closer]]
  /\ UNCHANGED <<pipeVars, disk, hist, netVars>>

\* ... and its return once the loop has answered and exited
WriterClosed ==
  /\ Running /\ proc.main = "closing" /\ proc.closing
  /\ writers[CloseOrder[proc.closer]].reply # NoReply
  /\ writers[CloseOrder[proc.closer]].loop = "exited"
  /\ writers' = [writers EXCEPT ![CloseOrder[proc.closer]].reply = NoReply]
  /\ proc' = [proc EXCEPT !.closing = FALSE, !.closer = @ + 1]
  /\ last' = [op |-> "writerclosed", w |-> CloseOrder[proc.closer]]
  /\ UNCHANGED <<pipeVars, disk, hist, netVars>>

\* main's select: the closing goroutine is done
ShutdownDone ==
  /\ Running /\ proc.main = "closing" /\ proc.closer > Len(CloseOrder)
  /\ proc' = [proc EXCEPT !.main = "exited", !.exit = "clean"]
  /\ last' = [op |-> "exit"]
  /\ UNCHANGED <<pipeVars, writers, disk, hist, netVars>>

\* main's select: the shutdown deadline passes first
ShutdownTimeout ==
  /\ Running /\ proc.main = "closing" /\ proc.closer <= Len(CloseOrder)
  /\ proc' = [proc EXCEPT !.main = "exited", !.exit = "forced"]
  /\ last' = [op |-> "exit"]
  /\ UNCHANGED <<pipeVars, writers, disk, hist, netVars>>

NextMain ==
  \/ ReaderTurn \/ ReaderLastRead \/ ReaderLastSend \/ ReaderStops
  \/ AggRecv \/ AggWrite \/ AggTick \/ AggFlushSend \/ AggFlushReturns \/ AggReturn
  \/ WriterTurn
  \/ Cancel \/ MainFinalWrite \/ MainFinalFlush \/ MainFinalFlushed
  \/ CloseClient \/ CloseWriter \/ WriterClosed \/ ShutdownDone \/ ShutdownTimeout

SpecMain == InitMain /\ [][NextMain]_vars


\* the lines a file must hold for the records its writer accepted
AcceptedOf(n) == [i \in 1..Len(hist.accepted[n]) |-> JSONLine(hist.accepted[n][i])]

\* C12: every event that was waiting in a venue channel when cancellation
\* was signalled has been handled by the time the aggregator returns
C12_QueuedEventsDrained ==
  proc.agg = "returned" => \A v \in Venues : hist.owed[v] = 0

\* cancellation is signalled while an event waits in a venue channel
C12_Witness ==
  /\ last.op = "cancel"
  /\ \E v \in Venues : bookCh[v] # <<>> /\ hist.owed[v] > 0

\* C13: when the process exits, the last metrics snapshot has been handed
\* to the metrics writer, every writer's loop has ended, and every record a
\* writer accepted is a line of its file; exits forced by the shutdown
\* deadline are left aside
C13_AllRecordsOnExit ==
  (proc.exit # "" /\ proc.exit # "forced") =>
    /\ \E i \in 1..Len(hist.accepted[MetricsFile]) : hist.accepted[MetricsFile][i].final
    /\ \A n \in Files : writers[n].loop = "exited" /\ writers[n].file = AcceptedOf(n)

\* the process exits after a signal and a trade were accepted
C13_Witness ==
  /\ proc.exit # ""
  /\ hist.accepted[SignalsFile] # <<>> /\ hist.accepted[PaperFile] # <<>>

\* the same, for the exits in which the closing goroutine finished
CleanExitKeepsRecords ==
  proc.exit = "clean" =>
    /\ \E i \in 1..Len(hist.accepted[MetricsFile]) : hist.accepted[MetricsFile][i].final
    /\ \A n \in Files : writers[n].loop = "exited" /\ writers[n].file = AcceptedOf(n)

\* the position of (l, s) was closed by this step: its record is closed
\* afterwards and was open before, or was opened by this very step
ClosedByStep(l, s) ==
  /\ execs'[l].positions[s] # NoPos /\ execs'[l].positions[s].Closed
  /\ \/ PosOpen(execs[l].positions[s])
        /\ execs'[l].positions[s].uid = execs[l].positions[s].uid
     \/ execs'[l].allocated > execs[l].allocated
        /\ execs'[l].positions[s].uid = execs'[l].allocated

\* the trade records of leader l among the Write calls the handler makes
TradesPending(l, pend) ==
  {i \in 1..Len(pend) : pend[i].w = PaperFile /\ pend[i].rec.leader = l}

\* C37: a closed position is never closed again; a handled event that
\* closes a position of leader l adds that position, once, to l's EV
\* calculator and leaves exactly one trade record of l to be written, an
\* event that closes none adds nothing and leaves none; and every trade
\* record the handler writes is accepted by the paper writer's queue
C37_OneCloseOneSampleOneRecord ==
  [][/\ \A l \in Leaders, s \in Symbols :
          (execs[l].positions[s] # NoPos /\ execs[l].positions[s].Closed) =>
            \/ execs'[l].positions[s] = execs[l].positions[s]
            \/ execs'[l].positions[s].uid > execs[l].positions[s].uid
     /\ last'.op = "handle" =>
          \A l \in Leaders :
            LET cl == {s \in Symbols : ClosedByStep(l, s)} IN
            /\ Cardinality(cl) <= 1
            /\ (last'.res[l].closed # "") <=> (cl # {})
            /\ \A s \in cl : evCalcs'[l] = EVAdd(evCalcs[l], execs'[l].positions[s])
            /\ cl = {} => evCalcs'[l] = evCalcs[l]
            /\ Cardinality(TradesPending(l, proc'.pend)) = Cardinality(cl)
            /\ \A i \in TradesPending(l, proc'.pend) :
                 proc'.pend[i].rec = TradeRec(l, last'.now, last'.res[l].closed)
     /\ last'.op # "handle" => (execs' = execs /\ evCalcs' = evCalcs)
     /\ (last'.op = "aggwrite" /\ last'.w = PaperFile) =>
          /\ hist'.accepted[PaperFile] = Append(hist.accepted[PaperFile], last'.rec)
          /\ Len(writers'[PaperFile].ch) = Len(writers[PaperFile].ch) + 1]_vars

\* the trade record of a closed position has been accepted by the paper
\* writer and the position's sample is in its leader's EV window
C37_Witness ==
  /\ last.op = "aggwrite" /\ last.w = PaperFile
  /\ \E l \in Leaders, s \in Symbols :
       /\ last.rec.leader = l
       /\ execs[l].positions[s] # NoPos /\ execs[l].positions[s].Closed
       /\ evCalcs[l].count = 1

\* the aggregator is in the ticker branch of its select
InTickBranch ==
  \/ proc.agg \in {"flushsend", "flushwait"}
  \/ proc.agg = "write" /\ proc.pend # <<>> /\ Head(proc.pend).w = MetricsFile

\* C15: the aggregator never has to wait while it writes a metrics
\* snapshot: in the ticker branch its next step can always be taken
C15_MetricsNeverBlocks ==
  (Running /\ InTickBranch) => ENABLED (AggWrite \/ AggFlushSend \/ AggFlushReturns)

\* the aggregator waits for the metrics writer while a venue event is queued
C15_Witness ==
  /\ Running /\ proc.agg = "flushwait" /\ writers[MetricsFile].reply = NoReply
  /\ \E v \in Venues : bookCh[v] # <<>>

\* C16: when the snapshot of a metrics tick is handed to the metrics
\* writer, every signal and trade record of every event handled before
\* that tick has been accepted by its writer
C16_RecordsBeforeSnapshot ==
  [][(last'.op = "aggwrite" /\ last'.w = MetricsFile) =>
       \A n \in {SignalsFile, PaperFile} : Len(hist'.accepted[n]) = hist'.produced[n]]_vars

\* a tick's snapshot is written after an event produced a signal
C16_Witness ==
  /\ last.op = "aggwrite" /\ last.w = MetricsFile
  /\ hist.produced[SignalsFile] > 0
  /\ Len(hist.accepted[SignalsFile]) = hist.produced[SignalsFile]


\* ------------------------------------------------- hold time, C40
\* handleBookEvent called on a stream of events of one symbol whose arrival
\* stamps increase by one tick per event, MaxEvents events in all; an
\* event comes from any venue and may carry a book with a missing side.

HoldPairs == EdgePairs \cup {<<0, 1>>}

\* handleBookEvent's work for one link, statement by statement: the set
\* holding the one outcome of Engine.Evaluate, applyEVAndMaybeOpen,
\* Executor.Evaluate, Calculator.Add and NotifyStopLoss run in that order
LinkStep(c, leader, ev, bks, eng, ex, calc) ==
  LET lb == bks[leader][ev.SymbolCanon]
      fb == bks[ExchangeBittap][ev.SymbolCanon]
      now == ev.ArrivedAtUnixNs
  IN
  IF lb = NoBook \/ fb = NoBook THEN {NoLink(eng, ex, calc)}
  ELSE
    UNION {UNION {{[eng |-> IF r2.closed # NoPos /\ r2.closed.ExitReason = ExitSL
                            THEN NotifyStopLoss(c, r1.eng, r2.closed.SymbolCanon, now)
                            ELSE r1.eng,
                    ex |-> r2.ex,
                    calc |-> IF r2.closed # NoPos THEN EVAdd(calc, r2.closed) ELSE calc,
                    sig |-> a.sig, tried |-> a.tried, opened |-> a.opened,
                    closed |-> r2.closed]
                    : r2 \in {ExecEvaluate(leader, a.ex, now, lb, fb)}}
                  : a \in {IF r1.sig # NoSignal
                           THEN applyEVAndMaybeOpen(leader, r1.sig, calc, ex)
                           ELSE [ex |-> ex, sig |-> NoSignal, tried |-> FALSE,
                                 opened |-> FALSE]}}
           : r1 \in {EngineEvaluate(c, leader, eng, now, lb, fb)}}

InitHold ==
  /\ InitCommon
  /\ cfg = Cfg(0, MinDepthUSD, FALSE)
  /\ hist = Absent

HoldEvent ==
  /\ clock < MaxEvents * TickMs
  /\ clock' = clock + TickMs
  /\ \E v \in Venues, px \in HoldPairs :
       LET ev == BookEvent(v, EngineSym, px[1], px[2], MaxQty, clock + TickMs) IN
       \E bks \in {StoreUpdate(books, ev)} :
       \E ro \in LinkStep(cfg, ExchangeOKX, ev, bks, engines[ExchangeOKX],
                          execs[ExchangeOKX], evCalcs[ExchangeOKX]) :
       \E rb \in LinkStep(cfg, ExchangeBinance, ev, bks, engines[ExchangeBinance],
                          execs[ExchangeBinance], evCalcs[ExchangeBinance]) :
       \E rs \in {[l \in Leaders |-> IF l = ExchangeOKX THEN ro ELSE rb]} :
         /\ books' = bks
         /\ engines' = [l \in Leaders |-> rs[l].eng]
         /\ execs' = [l \in Leaders |-> rs[l].ex]
         /\ evCalcs' = [l \in Leaders |-> rs[l].calc]
         /\ last' = [op |-> "handle", venue |-> v, now |-> ev.ArrivedAtUnixNs,
                     res |-> [l \in Leaders |-> LinkResult(rs[l])]]
  /\ UNCHANGED <<cfg, bookCh, wire, hist, ioVars, netVars>>

\* the outcome of every step is the one HandleLink computes
StepsAsHandleLink ==
  [][last'.op = "handle" =>
       \A l \in Leaders :
         \E r \in {HandleLink(cfg, l, books'[last'.venue][EngineSym], books',
                              engines[l], execs[l], evCalcs[l])} :
           /\ engines'[l] = r.eng /\ execs'[l] = r.ex /\ evCalcs'[l] = r.calc
           /\ last'.res[l] = LinkResult(r)]_vars

NextHold == HoldEvent

SpecHold == InitHold /\ [][NextHold]_vars

\* events keep arriving
SpecHoldFair == SpecHold /\ WF_vars(HoldEvent)

\* the stored leader and follower books of (l, s) have positive best prices
BooksPositive(l, s) ==
  /\ books[l][s] # NoBook /\ books[ExchangeBittap][s] # NoBook
  /\ books[l][s].BestBidPx > 0 /\ books[l][s].BestAskPx > 0
  /\ books[ExchangeBittap][s].BestBidPx > 0 /\ books[ExchangeBittap][s].BestAskPx > 0

\* the stream is long enough to carry an event later than the position's
\* entry time plus max_hold_ms
OutlivedBy(p) == p.EntryTimeNs + MaxHoldMs < MaxEvents * TickMs

\* C40: with max_hold_ms > 0, an open position of a link is closed at
\* some later event, or earlier than that the link's stored books stop
\* having positive best prices
C40_OpenEventuallyClosed ==
  \A l \in Leaders, s \in Symbols :
    (MaxHoldMs > 0 /\ PosOpen(execs[l].positions[s]) /\ OutlivedBy(execs[l].positions[s]))
      ~> (~PosOpen(execs[l].positions[s]) \/ ~BooksPositive(l, s))

\* a position closed by its timeout, on books with positive prices
C40_Witness ==
  /\ last.op = "handle"
  /\ \E l \in Leaders, s \in Symbols :
       /\ last.res[l].closed = ExitTimeout
       /\ execs[l].positions[s] # NoPos /\ execs[l].positions[s].Closed
       /\ execs[l].positions[s].ExitTimeNs - execs[l].positions[s].EntryTimeNs > MaxHoldMs
       /\ BooksPositive(l, s)


\* ------------------------------------------- one writer, concurrent callers
\* Three goroutines call Write, Flush and Close on one Writer, MaxCalls
\* times in all, in any order and at any moment.  A call is a sequence
\* of steps, one per statement that reads or writes shared state: the
\* closed flag, sendMu, closeOnce, the operation channel, the reply.  A send
\* on a closed channel panics, which ends the process.

Callers == {"g1", "g2", "g3"}

CallKinds == {"Write", "Flush", "Close"}

NoHolder == "none"

ClosedAfterLock_Skip(w) == FALSE

\* the second test of the closed flag, made with sendMu held
ClosedAfterLock(w) == w.closed

InitConc ==
  /\ clock = 0
  /\ bookCh = [v \in Venues |-> <<>>]
  /\ books = [v \in Venues |-> [sy \in Symbols |-> NoBook]]
  /\ engines = [l \in Leaders |-> NewEngine]
  /\ execs = [l \in Leaders |-> NewExecutor]
  /\ evCalcs = [l \in Leaders |-> NewCalculator]
  /\ wire = [free |-> FALSE, tape |-> [v \in Venues |-> <<>>]]
  /\ cfg = DefaultCfg
  /\ NetIdle
  /\ writers = [n \in {TheWriter} |-> NewWriter]
  /\ disk = TRUE
  /\ proc = [pc |-> [c \in Callers |-> "idle"], kind |-> [c \in Callers |-> ""],
             late |-> [c \in Callers |-> FALSE], calls |-> 0,
             sendMu |-> NoHolder, once |-> "new", chClosed |-> FALSE,
             panic |-> FALSE, closeErr |-> FALSE]
  /\ last = [op |-> "init"]
  /\ hist = Absent

ConcFrame == UNCHANGED <<pipeVars, netVars, disk, hist>>

\* the call returns to its caller
Returned(c, mu) == [proc EXCEPT !.pc[c] = "idle", !.sendMu = mu]

\* a goroutine calls Write, Flush or Close; late says whether the closed
\* flag was already set when the call started
ConcBegin(c) ==
  /\ ~proc.panic /\ proc.pc[c] = "idle" /\ proc.calls < MaxCalls
  /\ \E k \in CallKinds :
       /\ proc' = [proc EXCEPT !.pc[c] = IF k = "Close" THEN "once" ELSE "check",
                               !.kind[c] = k, !.late[c] = writers[TheWriter].closed,
                               !.calls = @ + 1]
       /\ last' = [op |-> "begin", c |-> c, kind |-> k]
  /\ UNCHANGED writers /\ ConcFrame

\* Write / Flush: the first test of the closed flag
ConcCheck(c) ==
  /\ ~proc.panic /\ proc.pc[c] = "check"
  /\ proc' = IF writers[TheWriter].closed THEN Returned(c, proc.sendMu)
             ELSE [proc EXCEPT !.pc[c] = "lock"]
  /\ last' = [op |-> IF writers[TheWriter].closed THEN "return" ELSE "check", c |-> c,
              kind |-> proc.kind[c], late |-> proc.late[c]]
  /\ UNCHANGED writers /\ ConcFrame

\* sendMu.Lock(), in Write, Flush and in the body of Close
ConcLock(c) ==
  /\ ~proc.panic /\ proc.pc[c] \in {"lock", "clock"}
  /\ proc.sendMu = NoHolder
  /\ proc' = [proc EXCEPT !.sendMu = c,
                          !.pc[c] = IF proc.pc[c] = "lock" THEN "recheck" ELSE "csend"]
  /\ last' = [op |-> "lock", c |-> c]
  /\ UNCHANGED writers /\ ConcFrame

\* Write / Flush: the test of the closed flag under the lock
ConcRecheck(c) ==
  /\ ~proc.panic /\ proc.pc[c] = "recheck"
  /\ proc' = IF ClosedAfterLock(writers[TheWriter]) THEN Returned(c, NoHolder)
             ELSE [proc EXCEPT !.pc[c] = "send"]
  /\ last' = [op |-> IF ClosedAfterLock(writers[TheWriter]) THEN "return" ELSE "recheck",
              c |-> c, kind |-> proc.kind[c], late |-> proc.late[c]]
  /\ UNCHANGED writers /\ ConcFrame

\* Write / Flush: w.ch <- op; Write then unlocks and returns
ConcSend(c) ==
  /\ ~proc.panic /\ proc.pc[c] = "send"
  /\ IF proc.chClosed
     THEN /\ proc' = [proc EXCEPT !.panic = TRUE]
          /\ UNCHANGED writers
     ELSE /\ ~SendBlocks(writers[TheWriter])
          /\ writers' = [writers EXCEPT ![TheWriter].ch =
                           Append(@, IF proc.kind[c] = "Write"
                                     THEN [typ |-> opWrite, val |-> c]
                                     ELSE [typ |-> opFlush])]
          /\ proc' = IF proc.kind[c] = "Write" THEN Returned(c, NoHolder)
                     ELSE [proc EXCEPT !.pc[c] = "wait"]
  /\ last' = [op |-> "send", c |-> c, kind |-> proc.kind[c], late |-> proc.late[c]]
  /\ ConcFrame

\* Flush: <-done, unlock, return
ConcFlushReturns(c) ==
  /\ ~proc.panic /\ proc.pc[c] = "wait"
  /\ writers[TheWriter].reply # NoReply
  /\ writers' = [writers EXCEPT ![TheWriter].reply = NoReply]
  /\ proc' = Returned(c, NoHolder)
  /\ last' = [op |-> "return", c |-> c, kind |-> proc.kind[c], late |-> proc.late[c]]
  /\ ConcFrame

\* Close: closeOnce.Do runs the body for the first caller, makes a caller
\* that arrives while the body runs wait, and skips it afterwards
ConcOnce(c) ==
  /\ ~proc.panic /\ proc.pc[c] = "once"
  /\ proc.once # "running"
  /\ proc' = IF proc.once = "new"
             THEN [proc EXCEPT !.once = "running", !.pc[c] = "store"]
             ELSE [proc EXCEPT !.pc[c] = "wgwait"]
  /\ last' = [op |-> "once", c |-> c]
  /\ UNCHANGED writers /\ ConcFrame

\* Close: atomic.StoreInt32(&w.closed, 1)
ConcStore(c) ==
  /\ ~proc.panic /\ proc.pc[c] = "store"
  /\ writers' = [writers EXCEPT ![TheWriter].closed = TRUE]
  /\ proc' = [proc EXCEPT !.pc[c] = "clock"]
  /\ last' = [op |-> "store", c |-> c]
  /\ ConcFrame

\* Close: w.ch <- op{typ: opClose}
ConcCloseSend(c) ==
  /\ ~proc.panic /\ proc.pc[c] = "csend"
  /\ IF proc.chClosed
     THEN /\ proc' = [proc EXCEPT !.panic = TRUE]
          /\ UNCHANGED writers
     ELSE /\ ~SendBlocks(writers[TheWriter])
          /\ writers' = [writers EXCEPT ![TheWriter].ch = Append(@, [typ |-> opClose])]
          /\ proc' = [proc EXCEPT !.pc[c] = "cwait"]
  /\ last' = [op |-> "closesend", c |-> c]
  /\ ConcFrame

\* Close: w.closeErr = <-done; close(w.ch); unlock; the body is done
ConcCloseReplied(c) ==
  /\ ~proc.panic /\ proc.pc[c] = "cwait"
  /\ writers[TheWriter].reply # NoReply
  /\ writers' = [writers EXCEPT ![TheWriter].reply = NoReply]
  /\ proc' = [proc EXCEPT !.closeErr = writers[TheWriter].reply.err,
                          !.chClosed = TRUE, !.sendMu = NoHolder,
                          !.once = "done", !.pc[c] = "wgwait"]
  /\ last' = [op |-> "closech", c |-> c]
  /\ ConcFrame

\* Close: w.wg.Wait(); return w.closeErr
ConcCloseReturns(c) ==
  /\ ~proc.panic /\ proc.pc[c] = "wgwait"
  /\ writers[TheWriter].loop = "exited"
  /\ proc' = Returned(c, proc.sendMu)
  /\ last' = [op |-> "return", c |-> c, kind |-> proc.kind[c], late |-> proc.late[c]]
  /\ UNCHANGED writers /\ ConcFrame

\* one turn of Writer.loop
ConcLoop ==
  /\ ~proc.panic
  /\ writers[TheWriter].loop = "run" /\ writers[TheWriter].ch # <<>>
  /\ writers' = [writers EXCEPT ![TheWriter] = WriterLoop(@, disk)]
  /\ last' = [op |-> "loop", typ |-> Head(writers[TheWriter].ch).typ]
  /\ UNCHANGED proc /\ ConcFrame

\* the steps of a call that is under way
ConcStep(c) ==
  \/ ConcCheck(c) \/ ConcLock(c) \/ ConcRecheck(c) \/ ConcSend(c) \/ ConcFlushReturns(c)
  \/ ConcOnce(c) \/ ConcStore(c) \/ ConcCloseSend(c) \/ ConcCloseReplied(c)
  \/ ConcCloseReturns(c)

NextConc == (\E c \in Callers : ConcBegin(c) \/ ConcStep(c)) \/ ConcLoop

SpecConc == InitConc /\ [][NextConc]_vars

\* every runnable goroutine is scheduled: a call whose next step stays
\* possible takes it, and the writer's loop takes the next operation
SpecConcFair ==
  SpecConc /\ WF_vars(ConcLoop) /\ \A c \in Callers : WF_vars(ConcStep(c))

\* C39: whatever the interleaving of Write, Flush and Close calls on
\* one writer, no send is made on the operation channel once Close has
\* closed it, a Write or Flush that started after Close set the closed flag
\* sends nothing, and every call that started returns
C39_ConcurrentCallsReturn ==
  /\ [](~proc.panic /\ (last.op = "send" => ~last.late))
  /\ \A c \in Callers : (proc.pc[c] # "idle") ~> (proc.pc[c] = "idle")

\* a Write that started after the closed flag was set has returned, the
\* channel is closed and another call had to wait for sendMu meanwhile
C39_Witness ==
  /\ last.op = "return" /\ last.kind = "Write" /\ last.late
  /\ proc.chClosed /\ ~proc.panic
  /\ \E c \in Callers : proc.pc[c] = "wgwait"

\* a Write that passed the first test of the closed flag before Close set
\* it, and took sendMu after Close had closed the channel
C39_WitnessRecheck ==
  /\ last.op = "return" /\ last.kind = "Write" /\ ~last.late
  /\ proc.chClosed /\ ~proc.panic
  /\ proc.sendMu = NoHolder


\* ========================================================== reconnect backoff
\* backoff.Backoff.  A time.Duration is an int64 count of nanoseconds; it is
\* kept here as [neg, m, s]: the 64-bit pattern is m * 2^s with m below 2^31,
\* and neg says that bit 63 of the pattern is set, i.e. that the int64 is
\* negative.  Shifts and products wrap as int64 does.  The jitter factor
\* 1 + (rand*2 - 1) * jitter is a number of JitterDen-ths.

Int64Bits == 64
\* numbers below 2^SmallBits are computed directly
SmallBits == Int64Bits \div 2 - 1
JitterDen == 5

Pow2(k) == 2 ^ k

Dur(m, s) == [neg |-> FALSE, m |-> m, s |-> s]

NanoSecond == Dur(1, 0)
\* 10^9 = 1953125 * 2^9
Second == Dur(1953125, 9)
\* 30 * 10^9 = 29296875 * 2^10
ThirtySeconds == Dur(29296875, 10)

\* m * 2^d is 2^31 or more
Big(m, d) == m > 0 /\ d > 0 /\ (d >= SmallBits \/ m >= Pow2(SmallBits - d))

\* a.m * 2^a.s > b.m * 2^b.s, for patterns read as unsigned numbers
MagGt(a, b) ==
  LET e == IF a.s < b.s THEN a.s ELSE b.s
      da == a.s - e
      db == b.s - e
  IN IF a.m = 0 THEN FALSE
     ELSE IF b.m = 0 THEN TRUE
     ELSE IF Big(a.m, da) THEN TRUE
     ELSE IF Big(b.m, db) THEN FALSE
     ELSE a.m * Pow2(da) > b.m * Pow2(db)

\* a > b for non-negative b
DurGt(a, b) == ~a.neg /\ MagGt(a, b)

\* the int64 product b * (int64(1) << attempt), wrapped to 64 bits
ShiftMul(b, attempt) ==
  LET t == b.s + attempt IN
  IF attempt >= Int64Bits \/ t >= Int64Bits \/ b.m = 0 THEN Dur(0, 0)
  ELSE LET keep == Int64Bits - t
           m1 == IF keep >= SmallBits THEN b.m ELSE b.m % Pow2(keep)
           top == keep - 1
       IN [neg |-> top < SmallBits /\ (m1 \div Pow2(top)) % 2 = 1,
           m |-> m1, s |-> IF m1 = 0 THEN 0 ELSE t]

\* New(base, max, jitter)
NewBackoff(base, max, jitter) == [base |-> base, max |-> max, jitter |-> jitter, attempt |-> 0]

\* the delay of Next() before jitter: base * 2^attempt, cut at max
CappedDelay(b) ==
  LET d == ShiftMul(b.base, b.attempt) IN IF DurGt(d, b.max) THEN b.max ELSE d

\* the jitter factors rand.Float64() can give, in JitterDen-ths: the two
\* ends of [1 - jitter, 1 + jitter] and the middle
JitterFactors(b) ==
  IF b.jitter > 0 THEN {JitterDen - b.jitter, JitterDen, JitterDen + b.jitter}
  ELSE {JitterDen}

\* Backoff.Next: the delay is CappedDelay times k / JitterDen
BackoffNext(b, k) ==
  [b |-> [b EXCEPT !.attempt = @ + 1], delay |-> CappedDelay(b), k |-> k]

BackoffReset_Keep(b) == b

\* Backoff.Reset
BackoffReset(b) == [b EXCEPT !.attempt = 0]

Bases == {NanoSecond, Dur(390625, 8), Second}

Jitters == {0, 1, JitterDen}

InitBackoff ==
  /\ clock = 0
  /\ bookCh = [v \in Venues |-> <<>>]
  /\ books = [v \in Venues |-> [sy \in Symbols |-> NoBook]]
  /\ engines = [l \in Leaders |-> NewEngine]
  /\ execs = [l \in Leaders |-> NewExecutor]
  /\ evCalcs = [l \in Leaders |-> NewCalculator]
  /\ wire = [free |-> FALSE, tape |-> [v \in Venues |-> <<>>]]
  /\ cfg = DefaultCfg
  /\ IOIdle
  /\ okxConn = Absent
  /\ tracker = Absent
  /\ \E base \in Bases, max \in {Second, ThirtySeconds}, j \in Jitters :
       /\ ~DurGt(base, max)
       /\ backoff = NewBackoff(base, max, j)
  /\ last = [op |-> "init"]
  /\ hist = [calls |-> 0]

\* a failed reconnect: Next() without Reset
DoNext ==
  /\ backoff.attempt < MaxAttempts
  /\ \E k \in JitterFactors(backoff) : \E r \in {BackoffNext(backoff, k)} :
       /\ backoff' = r.b
       /\ last' = [op |-> "next", attempt |-> backoff.attempt, delay |-> r.delay, k |-> r.k]
  /\ hist' = [calls |-> backoff.attempt + 1]
  /\ UNCHANGED <<pipeVars, ioVars, okxConn, tracker>>

\* a successful connect: Reset
DoReset ==
  /\ backoff.attempt > 0
  /\ backoff' = BackoffReset(backoff)
  /\ last' = [op |-> "reset"]
  /\ hist' = [calls |-> 0]
  /\ UNCHANGED <<pipeVars, ioVars, okxConn, tracker>>

NextBackoff == DoNext \/ DoReset

SpecBackoff == InitBackoff /\ [][NextBackoff]_vars

\* d * k
Scaled(d, k) == [neg |-> d.neg /\ k > 0, m |-> d.m * k, s |-> d.s]

\* a <= b for values that are small multiples of durations
DurLe(a, b) == IF a.neg THEN TRUE ELSE ~b.neg /\ ~MagGt(a, b)

\* C19: every delay Next() returns, delay * k / JitterDen, is at least
\* base * (1 - jitter) and at most max * (1 + jitter), however many calls
\* were made since the last Reset
C19_DelayWithinBounds ==
  last.op = "next" =>
    /\ DurLe(Scaled(backoff.base, JitterDen - backoff.jitter), Scaled(last.delay, last.k))
    /\ DurLe(Scaled(last.delay, last.k), Scaled(backoff.max, JitterDen + backoff.jitter))

\* the call that follows so many failures that base * 2^attempt no longer
\* fits an int64
C19_Witness ==
  /\ last.op = "next" /\ backoff.jitter > 0
  /\ backoff.base = Second /\ backoff.max = ThirtySeconds
  /\ last.delay.neg

\* base * 2^attempt computed without a width, cut at max
IdealDelay(b, attempt) ==
  LET d == Dur(b.base.m, b.base.s + attempt) IN IF MagGt(d, b.max) THEN b.max ELSE d

\* C20: with jitter = 0 the delay of the call with a given attempt number
\* is base * 2^attempt below max and max from then on
C20_GrowsThenStaysAtMax ==
  (last.op = "next" /\ backoff.jitter = 0) =>
    /\ ~last.delay.neg
    /\ ~MagGt(last.delay, IdealDelay(backoff, last.attempt))
    /\ ~MagGt(IdealDelay(backoff, last.attempt), last.delay)

\* a call without jitter made after the delay has reached max
C20_Witness ==
  /\ last.op = "next" /\ backoff.jitter = 0
  /\ last.attempt > 0
  /\ MagGt(Dur(backoff.base.m, backoff.base.s + last.attempt - 1), backoff.max)


\* ============================================================ OKX heartbeat
\* okx.Client: heartbeatLoop, the pong branch of readLoop, reconnect.  The
\* clock and the stored ping and pong times are in milliseconds.

PingIntervalMs == 25000
PongTimeoutMs == 10000

TimeStepMs == PongTimeoutMs \div 2
MaxClockMs == MaxBeats * PingIntervalMs

\* how long conn.WriteMessage may take: no time, or longer than the timeout
\* (no write deadline is set)
WriteDelays == {0, PongTimeoutMs + 1}

\* backoff.NewDefault
NewDefault == NewBackoff(Second, ThirtySeconds, 1)

\* a delay of whole milliseconds in milliseconds: 10^6 = 15625 * 2^6
DurMs(d) == (d.m \div 15625) * Pow2(d.s - 6)

Min2(a, b) == IF a < b THEN a ELSE b

InitHeartbeat ==
  /\ clock = 0
  /\ bookCh = [v \in Venues |-> <<>>]
  /\ books = [v \in Venues |-> [sy \in Symbols |-> NoBook]]
  /\ engines = [l \in Leaders |-> NewEngine]
  /\ execs = [l \in Leaders |-> NewExecutor]
  /\ evCalcs = [l \in Leaders |-> NewCalculator]
  /\ wire = [free |-> FALSE, tape |-> [v \in Venues |-> <<>>]]
  /\ cfg = DefaultCfg
  /\ IOIdle
  /\ backoff = NewDefault
  /\ tracker = Absent
  /\ okxConn = [conn |-> "open", lastPingSentNs |-> 0, lastPongRecvNs |-> 0,
                nextTick |-> PingIntervalMs, rd |-> "read", wakeAt |-> 0]
  /\ last = [op |-> "init"]
  /\ hist = [unanswered |-> 0, closes |-> 0, fresh |-> TRUE, prior |-> 0]

\* closeConn
closeConn(c) == [c EXCEPT !.conn = "nil"]

\* one round of heartbeatLoop's ticker branch; wr says whether the ping is
\* written, d how long the write takes
HeartbeatTick ==
  /\ clock = okxConn.nextTick
  /\ \E wr \in BOOLEAN, d \in WriteDelays :
       LET c0 == [okxConn EXCEPT !.nextTick = @ + PingIntervalMs]
           pingTime == clock
           now == clock + d
           c1 == [c0 EXCEPT !.lastPingSentNs = pingTime]
           lastPing == c1.lastPingSentNs
           lastPong == c1.lastPongRecvNs
           miss == lastPing > 0 /\ lastPong < lastPing /\ now - lastPing > PongTimeoutMs
       IN IF okxConn.conn = "nil"
          THEN /\ wr /\ d = 0
               /\ okxConn' = c0
               /\ UNCHANGED <<clock, hist>>
               /\ last' = [op |-> "tick", sent |-> FALSE, miss |-> FALSE]
          ELSE IF ~wr
          THEN /\ d = 0
               /\ okxConn' = c0
               /\ UNCHANGED <<clock, hist>>
               /\ last' = [op |-> "tick", sent |-> FALSE, miss |-> FALSE]
          ELSE /\ okxConn' = IF miss THEN closeConn(c1) ELSE c1
               /\ clock' = now
               /\ hist' = IF miss THEN [hist EXCEPT !.unanswered = 0, !.closes = 1]
                          ELSE [hist EXCEPT !.unanswered = IF @ > 0 THEN @ ELSE pingTime]
               /\ last' = [op |-> "tick", sent |-> TRUE, miss |-> miss]
  /\ UNCHANGED <<cfg, bookCh, books, engines, execs, evCalcs, wire, ioVars, backoff, tracker>>

\* readLoop reads a pong
PongArrives ==
  /\ okxConn.conn = "open" /\ okxConn.rd = "read"
  /\ hist.unanswered > 0
  /\ okxConn' = [okxConn EXCEPT !.lastPongRecvNs = clock]
  /\ hist' = [hist EXCEPT !.unanswered = 0]
  /\ last' = [op |-> "pong"]
  /\ UNCHANGED <<pipeVars, ioVars, backoff, tracker>>

\* reconnect up to its wait: closeConn, backoff.Next, time.After(delay)
ReconnectBegin(why) ==
  \E k \in JitterFactors(backoff) : \E r \in {BackoffNext(backoff, k)} :
    /\ backoff' = r.b
    /\ okxConn' = [closeConn(okxConn) EXCEPT !.rd = "wait",
                     !.wakeAt = clock + (DurMs(r.delay) * k) \div JitterDen]
    /\ hist' = [hist EXCEPT !.unanswered = 0, !.fresh = FALSE]
    /\ last' = [op |-> why, attempt |-> backoff.attempt, delay |-> r.delay, k |-> k,
                first |-> hist.fresh]
    /\ UNCHANGED <<pipeVars, ioVars, tracker>>

\* conn.ReadMessage returns an error on the open connection
ReadFails ==
  /\ okxConn.conn = "open" /\ okxConn.rd = "read"
  /\ ReconnectBegin("readerr")

\* the reader finds the connection closed under it
ReadClosed ==
  /\ okxConn.conn = "nil" /\ okxConn.rd = "read"
  /\ ReconnectBegin("readnil")

\* the rest of reconnect: Connect (which resets the backoff) and Subscribe
ReconnectEnd ==
  /\ okxConn.rd = "wait" /\ clock >= okxConn.wakeAt
  /\ \E ok \in BOOLEAN :
       /\ okxConn' = [okxConn EXCEPT !.rd = "read", !.conn = IF ok THEN "open" ELSE "nil"]
       /\ backoff' = IF ok THEN BackoffReset(backoff) ELSE backoff
       /\ hist' = IF ok THEN [hist EXCEPT !.fresh = TRUE, !.prior = backoff.attempt] ELSE hist
       /\ last' = [op |-> "connect", ok |-> ok]
  /\ UNCHANGED <<pipeVars, ioVars, tracker>>

\* time passes, up to the next ticker tick or the end of the reconnect wait
Advance ==
  /\ clock < okxConn.nextTick
  /\ clock < MaxClockMs
  /\ clock' = Min2(Min2(clock + TimeStepMs, okxConn.nextTick),
                   IF okxConn.rd = "wait" /\ okxConn.wakeAt > clock
                   THEN okxConn.wakeAt ELSE okxConn.nextTick)
  /\ last' = [op |-> "advance"]
  /\ UNCHANGED <<cfg, bookCh, books, engines, execs, evCalcs, wire, ioVars, netVars, hist>>

NextHeartbeat ==
  \/ HeartbeatTick
  \/ PongArrives
  \/ ReadFails
  \/ ReadClosed
  \/ ReconnectEnd
  \/ Advance

SpecHeartbeat == InitHeartbeat /\ [][NextHeartbeat]_vars

\* C18: a heartbeat round that finds the socket open and a ping unanswered
\* for longer than pong_timeout_ms, and that writes its own ping, closes the
\* socket
C18_HeartbeatMissClosesSocket ==
  [][(/\ last'.op = "tick" /\ last'.sent
      /\ okxConn.conn = "open"
      /\ hist.unanswered > 0
      /\ clock - hist.unanswered > PongTimeoutMs)
     => okxConn'.conn = "nil"]_vars

\* after a heartbeat round the socket is open with a ping that has been
\* unanswered for longer than pong_timeout_ms
C18_Witness ==
  /\ last.op = "tick" /\ last.sent
  /\ okxConn.conn = "open"
  /\ hist.unanswered > 0
  /\ clock - hist.unanswered > PongTimeoutMs


\* a step that starts a reconnect
InReconnect == last.op \in {"readerr", "readnil"}

\* C21: the first reconnect after a successful connect draws its delay for
\* attempt 0: base times a factor within +/- jitter, however many failed
\* attempts came before that connect
C21_ConnectResetsBackoff ==
  (InReconnect /\ last.first) =>
    /\ last.attempt = 0
    /\ last.delay = backoff.base
    /\ last.k >= JitterDen - backoff.jitter
    /\ last.k <= JitterDen + backoff.jitter

\* the first reconnect after a connect that succeeded only after a failed one
C21_Witness ==
  /\ InReconnect /\ last.first
  /\ hist.prior >= 2


\* ================================================= shutdown of all the tasks
\* One venue client (okx.Client: readLoop, heartbeatLoop, metricsLoop), the
\* aggregator's select loop, one writer and main's shutdown sequence, as far
\* as they decide whether each task ends after the cancellation.  Times are
\* left out: a sleep or a ticker may fire at any moment, and the ten seconds
\* of main's deadline may be over at any moment.

InitStop ==
  /\ clock = 0
  /\ bookCh = [v \in Venues |-> <<>>]
  /\ books = [v \in Venues |-> [sy \in Symbols |-> NoBook]]
  /\ engines = [l \in Leaders |-> NewEngine]
  /\ execs = [l \in Leaders |-> NewExecutor]
  /\ evCalcs = [l \in Leaders |-> NewCalculator]
  /\ wire = [free |-> FALSE, tape |-> [v \in Venues |-> <<>>]]
  /\ cfg = DefaultCfg
  /\ NetIdle
  /\ writers = [n \in {TheWriter} |-> NewWriter]
  /\ disk = TRUE
  /\ proc = [ctx |-> FALSE, rd |-> "top", hb |-> "run", ml |-> "run",
             conn |-> "open", closed |-> FALSE, chClosed |-> FALSE, q |-> 0,
             agg |-> "select", main |-> "agg", closer |-> "idle", exit |-> ""]
  /\ last = [op |-> "init"]
  /\ hist = [writes |-> 0, dialed |-> FALSE]

StopFrame == UNCHANGED <<pipeVars, disk, netVars>>

\* reconnect up to its select on ctx.Done and time.After
StopReconnect(p) == [p EXCEPT !.conn = "nil", !.rd = "sleep"]

\* readLoop from the top of its loop to the call of ReadMessage
RdTop ==
  /\ Running /\ proc.rd = "top"
  /\ proc' = IF proc.ctx \/ proc.closed THEN [proc EXCEPT !.rd = "done"]
             ELSE IF proc.conn = "nil" THEN StopReconnect(proc)
             ELSE [proc EXCEPT !.rd = "read"]
  /\ last' = [op |-> "rdtop"]
  /\ UNCHANGED <<writers, hist>> /\ StopFrame

\* ReadMessage returns: an error (always, once the connection was closed
\* under the reader), a frame with a book event, or another frame
RdRead ==
  /\ Running /\ proc.rd = "read"
  /\ \E got \in {"err", "event", "other"} :
       /\ proc.conn = "nil" => got = "err"
       /\ proc' = IF got = "err" THEN StopReconnect(proc)
                  ELSE [proc EXCEPT !.rd = IF got = "event" THEN "send" ELSE "top"]
       /\ last' = [op |-> "rdread", got |-> got]
  /\ UNCHANGED <<writers, hist>> /\ StopFrame

\* the non-blocking send of the event; on a closed channel it panics
RdSend ==
  /\ Running /\ proc.rd = "send"
  /\ proc' = IF proc.chClosed THEN [proc EXCEPT !.rd = "panic", !.exit = "panic"]
             ELSE [proc EXCEPT !.rd = "top",
                               !.q = IF @ < BookChCap THEN @ + 1 ELSE @]
  /\ last' = [op |-> "rdsend"]
  /\ UNCHANGED <<writers, hist>> /\ StopFrame

\* reconnect's select: ctx.Done (return) or the end of the backoff delay
RdSleep ==
  /\ Running /\ proc.rd = "sleep"
  /\ \E pick \in {"ctx", "timer"} :
       /\ pick = "ctx" => proc.ctx
       /\ proc' = [proc EXCEPT !.rd = IF pick = "ctx" THEN "top" ELSE "dial"]
       /\ last' = [op |-> "rdsleep", pick |-> pick]
  /\ UNCHANGED <<writers, hist>> /\ StopFrame

\* Connect(ctx) and Subscribe; DialContext fails on a cancelled context
RdDial ==
  /\ Running /\ proc.rd = "dial"
  /\ \E ok \in BOOLEAN :
       /\ proc.ctx => ~ok
       /\ proc' = [proc EXCEPT !.rd = "top", !.conn = IF ok THEN "open" ELSE @]
       /\ hist' = [hist EXCEPT !.dialed = @ \/ ok]
       /\ last' = [op |-> "rddial", ok |-> ok, ctx |-> proc.ctx]
  /\ UNCHANGED writers /\ StopFrame

\* heartbeatLoop takes ctx.Done
HbExit ==
  /\ Running /\ proc.hb = "run" /\ proc.ctx
  /\ proc' = [proc EXCEPT !.hb = "done"]
  /\ last' = [op |-> "hbexit"]
  /\ UNCHANGED <<writers, hist>> /\ StopFrame

\* heartbeatLoop takes a tick: return when closed, else ping and, on a
\* miss, closeConn
HbTick ==
  /\ Running /\ proc.hb = "run"
  /\ \E miss \in BOOLEAN :
       /\ (proc.closed \/ proc.conn = "nil") => ~miss
       /\ proc' = IF proc.closed THEN [proc EXCEPT !.hb = "done"]
                  ELSE IF miss THEN [proc EXCEPT !.conn = "nil"] ELSE proc
       /\ last' = [op |-> "hbtick", miss |-> miss]
  /\ UNCHANGED <<writers, hist>> /\ StopFrame

\* metricsLoop ends at ctx.Done, or at a tick that finds the client closed
MlExit ==
  /\ Running /\ proc.ml = "run" /\ (proc.ctx \/ proc.closed)
  /\ proc' = [proc EXCEPT !.ml = "done"]
  /\ last' = [op |-> "mlexit"]
  /\ UNCHANGED <<writers, hist>> /\ StopFrame

\* runAggregator takes an event and may write a record for it
StopAggRecv ==
  /\ Running /\ proc.agg = "select" /\ proc.q > 0
  /\ \E rec \in BOOLEAN :
       /\ rec => hist.writes < MaxRec /\ ~SendBlocks(writers[TheWriter])
       /\ writers' = IF rec
                     THEN [writers EXCEPT ![TheWriter] = WriterWrite(@, hist.writes + 1)]
                     ELSE writers
       /\ hist' = [hist EXCEPT !.writes = IF rec THEN @ + 1 ELSE @]
       /\ last' = [op |-> "aggrecv", rec |-> rec]
  /\ proc' = [proc EXCEPT !.q = @ - 1]
  /\ StopFrame

\* runAggregator takes ctx.Done and returns to main
StopAggReturn ==
  /\ Running /\ proc.agg = "select" /\ proc.ctx
  /\ proc' = [proc EXCEPT !.agg = "returned", !.main = "final"]
  /\ last' = [op |-> "aggreturn"]
  /\ UNCHANGED <<writers, hist>> /\ StopFrame

\* main starts the closing goroutine and waits for it or for the deadline
StopMainClose ==
  /\ Running /\ proc.main = "final"
  /\ proc' = [proc EXCEPT !.main = "wait", !.closer = "client"]
  /\ last' = [op |-> "mainclose"]
  /\ UNCHANGED <<writers, hist>> /\ StopFrame

\* Client.Close
StopCloseClient ==
  /\ Running /\ proc.closer = "client"
  /\ proc' = [proc EXCEPT !.closed = TRUE, !.conn = "nil", !.chClosed = TRUE,
                          !.closer = "writer"]
  /\ last' = [op |-> "closeclient"]
  /\ UNCHANGED <<writers, hist>> /\ StopFrame

\* Writer.Close up to its wait
StopCloseWriter ==
  /\ Running /\ proc.closer = "writer"
  /\ ~SendBlocks(writers[TheWriter])
  /\ writers' = [writers EXCEPT ![TheWriter] = WriterCloseSend(@)]
  /\ proc' = [proc EXCEPT !.closer = "waitw"]
  /\ last' = [op |-> "closewriter"]
  /\ UNCHANGED hist /\ StopFrame

\* Writer.Close returns
StopWriterClosed ==
  /\ Running /\ proc.closer = "waitw"
  /\ writers[TheWriter].reply # NoReply
  /\ writers' = [writers EXCEPT ![TheWriter].reply = NoReply]
  /\ proc' = [proc EXCEPT !.closer = "done"]
  /\ last' = [op |-> "writerclosed"]
  /\ UNCHANGED hist /\ StopFrame

\* one turn of the writer's loop
StopWriterTurn ==
  /\ Running /\ LoopReady(writers[TheWriter])
  /\ writers' = [writers EXCEPT ![TheWriter] = WriterLoop(@, TRUE)]
  /\ last' = [op |-> "writerturn"]
  /\ UNCHANGED <<proc, hist>> /\ StopFrame

\* the signal handler calls cancel()
StopCancel ==
  /\ Running /\ ~proc.ctx
  /\ proc' = [proc EXCEPT !.ctx = TRUE]
  /\ last' = [op |-> "cancel"]
  /\ UNCHANGED <<writers, hist>> /\ StopFrame

\* main's select: the closing goroutine is done
StopDone ==
  /\ Running /\ proc.main = "wait" /\ proc.closer = "done"
  /\ proc' = [proc EXCEPT !.exit = "clean"]
  /\ last' = [op |-> "done"]
  /\ UNCHANGED <<writers, hist>> /\ StopFrame

\* main's select: the deadline is over first
StopTimeout ==
  /\ Running /\ proc.main = "wait" /\ proc.closer # "done"
  /\ proc' = [proc EXCEPT !.exit = "forced"]
  /\ last' = [op |-> "timeout"]
  /\ UNCHANGED <<writers, hist>> /\ StopFrame

StopTasks ==
  \/ RdTop \/ RdRead \/ RdSend \/ RdSleep \/ RdDial
  \/ HbExit \/ HbTick \/ MlExit
  \/ StopAggRecv \/ StopAggReturn
  \/ StopMainClose \/ StopCloseClient \/ StopCloseWriter \/ StopWriterClosed
  \/ StopWriterTurn \/ StopDone

NextStop == StopTasks \/ StopCancel \/ StopTimeout

SpecStop == InitStop /\ [][NextStop]_vars

\* every task gets its turn; the signal and the deadline are free to come
\* or not
SpecStopFair ==
  /\ SpecStop
  /\ WF_vars(RdTop) /\ WF_vars(RdRead) /\ WF_vars(RdSend) /\ WF_vars(RdSleep)
  /\ WF_vars(RdDial) /\ WF_vars(HbExit) /\ WF_vars(MlExit)
  /\ SF_vars(StopAggReturn) /\ WF_vars(StopMainClose) /\ WF_vars(StopCloseClient)
  /\ WF_vars(StopCloseWriter) /\ WF_vars(StopWriterClosed)
  /\ WF_vars(StopWriterTurn) /\ WF_vars(StopDone)

TasksEnded ==
  /\ proc.rd = "done" /\ proc.hb = "done" /\ proc.ml = "done"
  /\ proc.agg = "returned"
  /\ writers[TheWriter].loop = "exited"

\* after the cancellation every task ends, unless the process is gone first
EndsOrProcessGone == proc.ctx ~> (TasksEnded \/ ~Running)

\* no connection is made once the context is cancelled
NoDialAfterCancel == (last.op = "rddial" /\ last.ctx) => ~last.ok

\* C22: once the cancellation is signalled every task ends in order: when
\* the process is gone, other than by main's deadline, the aggregator has
\* left its loop, the reader has not died in a panic and the writer's loop
\* has ended after the Close operation
C22_TasksEndAfterCancel ==
  (~Running /\ proc.exit # "forced") =>
    /\ proc.agg = "returned"
    /\ proc.rd # "panic"
    /\ writers[TheWriter].loop = "exited"

\* the process is gone, not by main's deadline, after a cancellation
C22_Witness ==
  /\ ~Running /\ proc.exit # "forced"
  /\ proc.ctx


\* C32: the reader never attempts a send on its book channel after Close
\* has closed it
C32_NoSendOnClosedChannel ==
  ~(last.op = "rdsend" /\ proc.chClosed /\ proc.rd = "panic")

\* Close has closed the channel while the reader holds a decoded event it
\* has not yet enqueued
C32_Witness ==
  /\ proc.chClosed /\ proc.closed
  /\ proc.rd = "send"


\* ================================================ engine filters, C25 - C28
\* One engine (the OKX link) built with persist_ms = 0 or one tick, with and
\* without a depth floor, with and without the volatility filter, driven
\* by arbitrary NotifyStopLoss / Evaluate calls.  Each Evaluate records its
\* books and the two candidates as they were before the call.

FilterCfgs ==
  {Cfg(0, MinDepthUSD, FALSE), Cfg(TickMs, MinDepthUSD, FALSE), Cfg(0, 0, TRUE)}

InitFilters ==
  /\ InitCommon
  /\ IOIdle /\ NetIdle
  /\ cfg \in FilterCfgs
  /\ hist = [slAt |-> 0]

FilterNotify ==
  \E now \in NowNano :
    /\ engines' = [engines EXCEPT ![EngineLeader] =
                     NotifyStopLoss(cfg, engines[EngineLeader], EngineSym, now)]
    /\ hist' = [slAt |-> now]
    /\ last' = [op |-> "notify", now |-> now]
    /\ clock' = now
    /\ UNCHANGED <<cfg, bookCh, books, execs, evCalcs, wire, ioVars, netVars>>

FilterEvaluate ==
  \E now \in NowNano :
    \E lb \in EngineLeaderBooks(now), fb \in EngineFollowerBooks(now) :
      \E r \in {EngineEvaluate(cfg, EngineLeader, engines[EngineLeader], now, lb, fb)} :
      /\ engines' = [engines EXCEPT ![EngineLeader] = r.eng]
      /\ last' = [op |-> "evaluate", now |-> now, stage |-> r.stage,
                  side |-> IF r.sig = NoSignal THEN "" ELSE r.sig.Side,
                  lb |-> lb, fb |-> fb,
                  was |-> [sd \in Sides |->
                             IF sd = SideLong THEN engines[EngineLeader][EngineSym].longCand
                             ELSE engines[EngineLeader][EngineSym].shortCand]]
      /\ clock' = now
      /\ UNCHANGED <<cfg, hist, bookCh, books, execs, evCalcs, wire, ioVars, netVars>>

NextFilters == FilterNotify \/ FilterEvaluate

SpecFilters == InitFilters /\ [][NextFilters]_vars

\* the last step was an Evaluate on well-formed books of the engine's link
Evaluated == last.op = "evaluate" /\ last.stage # "precond"

\* leader.best_bid > follower.best_ask * (1 + theta / 10^4)
LongCond ==
  last.lb.BestBidPx * BpsScale > last.fb.BestAskPx * (BpsScale + ThetaEntryBps)

\* follower.best_bid > leader.best_ask * (1 + theta / 10^4)
ShortCond ==
  last.fb.BestBidPx * BpsScale > last.lb.BestAskPx * (BpsScale + ThetaEntryBps)

\* the call was made inside the cooldown window of the last stop-loss
InWindow ==
  hist.slAt > 0 /\ hist.slAt <= last.now /\ last.now < hist.slAt + cfg.CooldownMs

\* the leader's top-5 notional is below a positive floor
Shallow ==
  /\ cfg.MinDepthUSD > 0
  /\ last.lb.Qty * (last.lb.BestBidPx + last.lb.BestAskPx) < cfg.MinDepthUSD

\* C25 as stated: with persist_ms = 0, an evaluate that no filter stops
\* returns LONG when the LONG condition holds, SHORT when the SHORT
\* condition holds, nothing otherwise
C25_AsStated ==
  (Evaluated /\ cfg.PersistMs = 0 /\ last.stage = "spread") =>
    /\ LongCond => last.side = SideLong
    /\ (ShortCond /\ ~LongCond) => last.side = SideShort
    /\ (~LongCond /\ ~ShortCond) => last.side = ""

\* C25: with persist_ms = 0, an evaluate that no filter stops returns LONG
\* iff the LONG condition holds and the LONG candidate was not active
\* before the call, else SHORT iff the SHORT condition holds and the SHORT
\* candidate was not active, else nothing
C25_SignalPolarity ==
  (Evaluated /\ cfg.PersistMs = 0 /\ last.stage = "spread") =>
    LET long == LongCond /\ ~last.was[SideLong].active
        short == ~long /\ ShortCond /\ ~last.was[SideShort].active
    IN /\ long <=> last.side = SideLong
       /\ short <=> last.side = SideShort
       /\ (~long /\ ~short) <=> last.side = ""

\* a SHORT signal returned with persist_ms = 0
C25_Witness ==
  /\ Evaluated /\ cfg.PersistMs = 0
  /\ last.side = SideShort /\ ShortCond

C25_WitnessLong ==
  /\ Evaluated /\ cfg.PersistMs = 0
  /\ last.side = SideLong /\ LongCond

TwoDifferentMids ==
  LET s == engines[EngineLeader][EngineSym].vol.samples
  IN \E i, j \in 1..Len(s) : s[i] # s[j]

\* the samples hold three in a row whose two log-returns differ
TwoDifferentReturns ==
  LET s == engines[EngineLeader][EngineSym].vol.samples
  IN \E i \in 1..(Len(s) - 2) : s[i + 1] * s[i + 1] # s[i] * s[i + 2]

\* C27 as stated: with the volatility filter on (threshold 0) and two
\* samples with different mid-prices observed, no signal fires
C27_AsStated ==
  (Evaluated /\ cfg.VolFilterEnabled /\ TwoDifferentMids) => last.side = ""

\* C27: with the volatility filter on (threshold 0) and three consecutive
\* samples observed whose two log-returns differ, no signal fires
C27_VolatilityFilter ==
  (Evaluated /\ cfg.VolFilterEnabled /\ TwoDifferentReturns) => last.side = ""

\* the volatility filter stopped a call at which a side's condition held
C27_Witness ==
  /\ Evaluated /\ cfg.VolFilterEnabled /\ TwoDifferentReturns
  /\ last.stage = "vol"
  /\ (LongCond \/ ShortCond)

C28_WitnessActive ==
  /\ Evaluated /\ InWindow
  /\ ~LongCond /\ last.was[SideLong].active


\* =================================================== lag tracker, C29, C30
\* A Tracker with windows of WindowSize samples, fed with arbitrary pairs of
\* events: leader events of any venue, with and without an exchange
\* timestamp, follower events that arrive before, at and after them.

WindowSize == 2
MaxAdds == 3
MaxTsMs == 2

NanosPerMs == 1000000

MsToNano(ms) == ms * NanosPerMs

newRollingWindow(size) == [size |-> size, buf |-> <<>>, pos |-> 0, count |-> 0, full |-> FALSE]

\* rollingWindow.add
rollingWindow_add(w, v) ==
  LET c == [w EXCEPT !.count = w.count + 1]
  IN IF w.size <= 0 THEN c
     ELSE IF ~w.full
       THEN LET b == Append(w.buf, v)
            IN IF Len(b) = w.size
                 THEN [c EXCEPT !.buf = b, !.full = TRUE, !.pos = 0]
                 ELSE [c EXCEPT !.buf = b]
       ELSE [c EXCEPT !.buf[w.pos + 1] = v,
                      !.pos = IF w.pos + 1 >= w.size THEN 0 ELSE w.pos + 1]

\* sort.Slice ascending, as a sequence
RECURSIVE SortAsc(_)
SortAsc(q) ==
  IF q = <<>> THEN <<>>
  ELSE LET i == CHOOSE i \in 1..Len(q) : \A j \in 1..Len(q) : q[i] <= q[j]
       IN <<q[i]>> \o SortAsc([k \in 1..(Len(q) - 1) |-> IF k < i THEN q[k] ELSE q[k + 1]])

\* rollingWindow.snapshotQuantiles; the quantiles are given in percent
snapshotQuantiles(w, qs) ==
  IF Len(w.buf) = 0 THEN [count |-> w.count, values |-> [i \in 1..Len(qs) |-> 0]]
  ELSE LET tmp == SortAsc(w.buf)
           n == Len(tmp)
       IN [count |-> w.count,
           values |-> [i \in 1..Len(qs) |->
                         IF qs[i] <= 0 THEN tmp[1]
                         ELSE IF qs[i] >= 100 THEN tmp[n]
                         ELSE tmp[((n - 1) * qs[i]) \div 100 + 1]]]

NewTracker(windowSize) ==
  [l \in Leaders |-> [arrived |-> newRollingWindow(windowSize),
                      event |-> newRollingWindow(windowSize)]]

\* one case of the switch in Tracker.Add
linkAdd(lt, lagArrivedNs, lagEventNs) ==
  [arrived |-> rollingWindow_add(lt.arrived, lagArrivedNs),
   event |-> IF lagEventNs # 0 THEN rollingWindow_add(lt.event, lagEventNs) ELSE lt.event]

addLag_AlwaysOKX(t, ex, lagArrivedNs, lagEventNs) ==
  [t EXCEPT ![ExchangeOKX] = linkAdd(t[ExchangeOKX], lagArrivedNs, lagEventNs)]

\* the switch on leaderEv.Exchange in Tracker.Add
addLag(t, ex, lagArrivedNs, lagEventNs) ==
  IF ex \in Leaders THEN [t EXCEPT ![ex] = linkAdd(t[ex], lagArrivedNs, lagEventNs)]
  ELSE t

TrackerAdd(t, leaderEv, followerEv) ==
  IF leaderEv = NoBook \/ followerEv = NoBook THEN t
  ELSE IF followerEv.Exchange # ExchangeBittap THEN t
  ELSE IF leaderEv.SymbolCanon = "" \/ followerEv.SymbolCanon = ""
          \/ leaderEv.SymbolCanon # followerEv.SymbolCanon THEN t
  ELSE LET lagArrivedNs == followerEv.ArrivedAtUnixNs - leaderEv.ArrivedAtUnixNs
           lagEventNs == IF leaderEv.ExchTsUnixMs > 0
                           THEN followerEv.ArrivedAtUnixNs - MsToNano(leaderEv.ExchTsUnixMs)
                           ELSE 0
       IN addLag(t, leaderEv.Exchange, lagArrivedNs, lagEventNs)

\* Tracker.Stats, in nanoseconds
TrackerStats(t, leader) ==
  IF leader \notin Leaders THEN [Leader |-> leader, Count |-> 0,
                                 Arrived |-> <<0, 0, 0>>, Event |-> <<0, 0, 0>>]
  ELSE [Leader |-> leader,
        Count |-> snapshotQuantiles(t[leader].arrived, <<50, 90, 99>>).count,
        Arrived |-> snapshotQuantiles(t[leader].arrived, <<50, 90, 99>>).values,
        Event |-> snapshotQuantiles(t[leader].event, <<50, 90, 99>>).values]

TrackEvent(ex, sym, at, ts) ==
  [Exchange |-> ex, SymbolCanon |-> sym, ArrivedAtUnixNs |-> at, ExchTsUnixMs |-> ts]

LeaderEvents ==
  {TrackEvent(ex, sym, at, ts) :
     ex \in Venues, sym \in Symbols,
     at \in {0, MsToNano(1)}, ts \in 0..MaxTsMs}
  \cup {TrackEvent(ExchangeOKX, "", 0, 1)}

FollowerEvents ==
  {TrackEvent(ExchangeBittap, sym, at, 0) :
     sym \in Symbols, at \in {MsToNano(1), MsToNano(2)}}
  \cup {TrackEvent(ExchangeOKX, sym, MsToNano(1), 0) : sym \in Symbols}

InitTracker ==
  /\ clock = 0
  /\ bookCh = [v \in Venues |-> <<>>]
  /\ books = [v \in Venues |-> [sy \in Symbols |-> NoBook]]
  /\ engines = [l \in Leaders |-> NewEngine]
  /\ execs = [l \in Leaders |-> NewExecutor]
  /\ evCalcs = [l \in Leaders |-> NewCalculator]
  /\ wire = [free |-> FALSE, tape |-> [v \in Venues |-> <<>>]]
  /\ cfg = DefaultCfg
  /\ last = [op |-> "init"]
  /\ IOIdle
  /\ backoff = Absent /\ okxConn = Absent
  /\ tracker = NewTracker(WindowSize)
  /\ hist = [adds |-> 0]

TrackerFrame == UNCHANGED <<pipeVars, ioVars, backoff, okxConn>>

DoTrackerAdd ==
  \E le \in LeaderEvents, fe \in FollowerEvents :
    /\ hist.adds < MaxAdds
    /\ tracker' = TrackerAdd(tracker, le, fe)
    /\ hist' = [adds |-> hist.adds + 1]
    /\ last' = [op |-> "add", le |-> le, fe |-> fe, before |-> tracker]
    /\ TrackerFrame

DoTrackerStats ==
  \E l \in Venues :
    /\ last' = [op |-> "stats", leader |-> l, stats |-> TrackerStats(tracker, l)]
    /\ UNCHANGED <<tracker, hist>>
    /\ TrackerFrame

NextTracker == DoTrackerAdd \/ DoTrackerStats

SpecTracker == InitTracker /\ [][NextTracker]_vars

\* the last step was an Add of a pair the tracker accepts: follower venue
\* F, equal non-empty symbols, a leader venue that has a link
AddedPair ==
  /\ last.op = "add"
  /\ last.fe.Exchange = ExchangeBittap
  /\ last.le.SymbolCanon = last.fe.SymbolCanon /\ last.le.SymbolCanon # ""
  /\ last.le.Exchange \in Leaders

\* window w1 is window w0 with exactly one more sample, v
Received(w0, w1, v) ==
  /\ w1.count = w0.count + 1
  /\ IF Len(w0.buf) < w0.size THEN w1.buf = Append(w0.buf, v)
     ELSE \E i \in 1..Len(w0.buf) : w1.buf = [w0.buf EXCEPT ![i] = v]

\* C29: an Add for one leader leaves the other leader's arrival window,
\* event window, count and percentiles as they were
C29_LeaderIndependence ==
  last.op = "add" =>
    \A o \in Leaders \ {last.le.Exchange} :
      /\ tracker[o].arrived = last.before[o].arrived
      /\ tracker[o].event = last.before[o].event
      /\ TrackerStats(tracker, o) = TrackerStats(last.before, o)

\* an accepted Add for one leader while the other leader's windows hold
\* samples
C29_Witness ==
  /\ AddedPair
  /\ tracker[last.le.Exchange] # last.before[last.le.Exchange]
  /\ \E o \in Leaders \ {last.le.Exchange} :
       /\ Len(last.before[o].arrived.buf) > 0
       /\ Len(last.before[o].event.buf) > 0

\* C30: an accepted Add gives the leader's arrival window exactly one
\* sample, follower.arrived_at_ns - leader.arrived_at_ns, and gives its
\* event window one sample, follower.arrived_at_ns - leader.exch_ts_ms *
\* 10^6, iff leader.exch_ts_ms > 0
C30_AddRecordsBothLags ==
  AddedPair =>
    LET l == last.le.Exchange
        fa == last.fe.ArrivedAtUnixNs
    IN /\ Received(last.before[l].arrived, tracker[l].arrived,
                   fa - last.le.ArrivedAtUnixNs)
       /\ IF last.le.ExchTsUnixMs > 0
            THEN Received(last.before[l].event, tracker[l].event,
                          fa - last.le.ExchTsUnixMs * NanosPerMs)
            ELSE tracker[l].event = last.before[l].event

\* an accepted Add whose leader carries an exchange timestamp and whose
\* event window took the sample
C30_Witness ==
  /\ AddedPair
  /\ last.le.ExchTsUnixMs > 0
  /\ Received(last.before[last.le.Exchange].event, tracker[last.le.Exchange].event,
              last.fe.ArrivedAtUnixNs - last.le.ExchTsUnixMs * NanosPerMs)

\* what does hold: the event window takes the sample iff the leader has an
\* exchange timestamp and the event lag is not zero
EventLagUnlessZero ==
  AddedPair =>
    LET l == last.le.Exchange
        v == last.fe.ArrivedAtUnixNs - last.le.ExchTsUnixMs * NanosPerMs
    IN /\ Received(last.before[l].arrived, tracker[l].arrived,
                   last.fe.ArrivedAtUnixNs - last.le.ArrivedAtUnixNs)
       /\ IF last.le.ExchTsUnixMs > 0 /\ v # 0
            THEN Received(last.before[l].event, tracker[l].event, v)
            ELSE tracker[l].event = last.before[l].event


\* ================================================== EV calculator, C31
\* One calculator (the OKX link's) with a window of EVWindow samples, fed
\* with arbitrary positions: closed ones with positive, zero and negative
\* gross and net results, open ones and nil.  hist keeps every accepted
\* sample, oldest first.

MaxEVAdds == 4

EVPositions ==
  {[Closed |-> cl, GrossPnLBps |-> RatInt(g), FeeBps |-> RatInt(f),
    NetPnLBps |-> RatInt(g - f)] :
     cl \in BOOLEAN, g \in {-2, 0, 1, 3}, f \in {0, 1}}
  \cup {NoPos}

InitEV ==
  /\ InitCommon
  /\ cfg = DefaultCfg
  /\ hist = [samples |-> <<>>]

DoEVAdd ==
  \E p \in EVPositions :
    /\ Len(hist.samples) < MaxEVAdds
    /\ evCalcs' = [evCalcs EXCEPT ![ExchangeOKX] = EVAdd(evCalcs[ExchangeOKX], p)]
    /\ hist' = [samples |-> IF p # NoPos /\ p.Closed
                              THEN Append(hist.samples, p) ELSE hist.samples]
    /\ last' = [op |-> "ev_add", pos |-> p, wasFull |-> evCalcs[ExchangeOKX].full]
    /\ UNCHANGED <<cfg, clock, bookCh, books, engines, execs, wire, ioVars, netVars>>

NextEV == DoEVAdd

SpecEV == InitEV /\ [][NextEV]_vars

\* the most recent min(n, W) accepted positions, oldest first
RecentClosed ==
  LET n == Len(hist.samples)
      k == IF n < EVWindow THEN n ELSE EVWindow
  IN [i \in 1..k |-> hist.samples[n - k + i]]

IsWin(p) == p.NetPnLBps.n > 0

RECURSIVE SumOver(_, _, _)
\* the sum of value(p) over the positions of q that are wins (w) or not
SumOver(q, w, field) ==
  IF q = <<>> THEN RatZero
  ELSE LET p == Head(q)
           v == IF field = "fee" THEN p.FeeBps
                ELSE IF IsWin(p) # w THEN RatZero
                ELSE IF w THEN p.GrossPnLBps
                ELSE RatAbs(p.GrossPnLBps)
       IN RatAdd(v, SumOver(Tail(q), w, field))

\* C31: count, win_count, loss_count and the running sums of the calculator
\* equal the values computed from the most recent min(n, W) closed
\* positions
C31_WindowedSums ==
  LET c == evCalcs[ExchangeOKX]
      q == RecentClosed
  IN /\ c.count = Len(q)
     /\ c.winCount = Cardinality({i \in 1..Len(q) : IsWin(q[i])})
     /\ c.lossCount = Cardinality({i \in 1..Len(q) : ~IsWin(q[i])})
     /\ c.sumWinR = SumOver(q, TRUE, "gross")
     /\ c.sumLossL = SumOver(q, FALSE, "gross")
     /\ c.sumFee = SumOver(q, TRUE, "fee")

\* an add to a full window that evicted a winning sample with a fee and
\* took a losing one
C31_Witness ==
  /\ last.op = "ev_add" /\ last.wasFull
  /\ last.pos # NoPos /\ last.pos.Closed /\ ~IsWin(last.pos)
  /\ Len(hist.samples) > EVWindow
  /\ LET old == hist.samples[Len(hist.samples) - EVWindow]
     IN IsWin(old) /\ old.FeeBps.n > 0


====
